---------------------------- MODULE Spec2Model ----------------------------
(***************************************************************************)
(* Dominoes: the real-time session coordinator.                            *)
(*                                                                         *)
(*   - the persisted tables Games, GameTiles and GameMoves and the HTTP    *)
(*     routes that change them (routes/game.js: play, draw, pass, end),    *)
(*     one action per awaited database call of a request;                  *)
(*   - the challenge negotiator (socket/challengeHandler.js);              *)
(*   - the connection-lifecycle manager (socket/gameHandler.js);           *)
(*   - the move logic of the client (components/GameBoard.jsx).            *)
(***************************************************************************)
EXTENDS Naturals, Integers, Sequences, FiniteSets, TLC

\* ------------------------------------------------------------------ bounds
\* seeds of the random stream used by the shuffle: 0..MaxSeed
MaxSeed == 1
\* HTTP requests begun in one behaviour
MaxRequests == 2
\* client turns replayed before the first request: a mid-game position, and
\* (after the boneyard was drawn empty) a late one
ReplayShort == 12
ReplayLong == 24
\* HTTP requests in flight at once
MaxInflight == 2
\* hand tiles (lowest ids first) a play request may name
MaxPick == 1
\* connections opened in one behaviour
MaxSockets == 2
\* send-challenge events, and accept-challenge events, in one behaviour
MaxChallenges == 1
MaxAccepts == 2
\* leave-game events in one behaviour
MaxLeaves == 1
\* clock steps (of half a sweep interval) in one behaviour
MaxTicks == 8
\* random choices of one shuffle that are left free (the others follow a stream)
MaxFree == 1

\* ------------------------------------------------------- program constants
MaxPip == 6
HandSize == 7
NoWinner == 0
NotOnBoard == -1
EXPIRY == 120000
SweepInterval == 60000

\* ------------------------------------------------------------ the tile set
\* generateAndShuffleDominoes, the two nested loops: [i, j] for i <= j.
RECURSIVE InnerLoop(_, _, _)
InnerLoop(i, j, set) ==
    IF j > MaxPip THEN set ELSE InnerLoop(i, j + 1, Append(set, <<i, j>>))

RECURSIVE OuterLoop(_, _)
OuterLoop(i, set) ==
    IF i > MaxPip THEN set ELSE OuterLoop(i + 1, InnerLoop(i, i, set))

DominoSet == OuterLoop(0, <<>>)

\* Math.floor(Math.random() * (i + 1)): a value of 0..i.  The random stream
\* is an input; the model draws it from the streams numbered 0..MaxSeed.
RandomIndex(seed, i) == ((seed + 2) * (i * i + 3) + 7 * i) % (i + 1)

\* set[i] = set[j] without the exchange
SwapCopies(set, i, j) ==
    [k \in 1..Len(set) |-> IF k = i + 1 THEN set[j + 1] ELSE set[k]]

\* [set[i], set[j]] = [set[j], set[i]], on 0-based indices.
Swap(set, i, j) ==
    [k \in 1..Len(set) |->
        IF k = i + 1 THEN set[j + 1] ELSE IF k = j + 1 THEN set[i + 1] ELSE set[k]]

\* the Fisher-Yates loop: for (i = set.length - 1; i > 0; i--)
RECURSIVE ShuffleLoop(_, _, _)
ShuffleLoop(set, i, seed) ==
    IF i > 0 THEN ShuffleLoop(Swap(set, i, RandomIndex(seed, i)), i - 1, seed)
    ELSE set

generateAndShuffleDominoes(seed) == ShuffleLoop(DominoSet, Len(DominoSet) - 1, seed)

\* allTiles.splice(0, 7) twice, the rest is the boneyard.
player1HandOf(allTiles) == SubSeq(allTiles, 1, HandSize)
player2HandOfShort(allTiles) == SubSeq(allTiles, HandSize + 1, 2 * HandSize - 1)
player2HandOf(allTiles) == SubSeq(allTiles, HandSize + 1, 2 * HandSize)
boneyardOf(allTiles) == SubSeq(allTiles, 2 * HandSize + 1, Len(allTiles))

TileRow(gid, value, loc) ==
    [gameID |-> gid, top_value |-> value[1], bottom_value |-> value[2],
     location |-> loc, board_position |-> NotOnBoard]

\* tilesToInsert mapped to tileInserts: player 1's hand, player 2's hand, boneyard.
tileInserts(gid, allTiles) ==
    [k \in 1..Len(player1HandOf(allTiles)) |->
        TileRow(gid, player1HandOf(allTiles)[k], "player1_hand")]
    \o [k \in 1..Len(player2HandOf(allTiles)) |->
        TileRow(gid, player2HandOf(allTiles)[k], "player2_hand")]
    \o [k \in 1..Len(boneyardOf(allTiles)) |->
        TileRow(gid, boneyardOf(allTiles)[k], "boneyard")]

\* the row accept-challenge inserts into Games (gameID is the table's key,
\* game_uuid the fresh random UUID, modelled as the same number).
GameRow(gid, challengerId, targetId, count) ==
    [game_uuid |-> gid, player1_id |-> challengerId, player2_id |-> targetId,
     current_turn |-> challengerId, status |-> "active", winner_id |-> NoWinner,
     boneyard_count |-> count]

\* ------------------------------------------------- the persistence gateway
\* Games.select(...).eq('game_uuid', gameUuid).single(): the gameID of the one
\* row with that uuid, 0 when .single() reports an error.
GameByUuid(G, uuid) ==
    LET hits == {g \in DOMAIN G : G[g].game_uuid = uuid}
    IN IF Cardinality(hits) = 1 THEN CHOOSE g \in hits : TRUE ELSE 0

\* const playerLocation = game.current_turn === game.player1_id ? ... (play)
playerLocation(game) ==
    IF game.current_turn = game.player1_id THEN "player1_hand" ELSE "player2_hand"

\* if (game.current_turn !== req.session.userId): 403 'Not your turn'
NotYourTurnSkipped(game, userId) == FALSE
NotYourTurn(game, userId) == game.current_turn # userId

\* const nextTurnPlayerId = game.current_turn === game.player1_id ? ... : ...
nextTurnPlayerId(game) ==
    IF game.current_turn = game.player1_id THEN game.player2_id ELSE game.player1_id

\* the select without its .eq('location', playerLocation)
tileToPlayAnywhere(T, tileId, gid, loc) ==
    /\ tileId \in DOMAIN T
    /\ T[tileId].gameID = gid

\* GameTiles.select('*').eq('titleID', tileId).eq('gameID', ..).eq('location', ..).single()
tileToPlayFound(T, tileId, gid, loc) ==
    /\ tileId \in DOMAIN T
    /\ T[tileId].gameID = gid
    /\ T[tileId].location = loc

TilesAt(T, gid, loc) == {t \in DOMAIN T : T[t].gameID = gid /\ T[t].location = loc}

\* .order('board_position', { ascending: true }): ties come in key order.
RECURSIVE OrderByPosition(_, _)
OrderByPosition(T, ids) ==
    IF ids = {} THEN <<>>
    ELSE LET first == CHOOSE t \in ids : \A u \in ids :
                          \/ T[t].board_position < T[u].board_position
                          \/ T[t].board_position = T[u].board_position /\ t <= u
         IN <<first>> \o OrderByPosition(T, ids \ {first})

\* GameTiles.select('titleID, board_position').eq('location', 'board'): the rows
\* as read, so a later update uses the position that was read.
existingBoardTiles(T, gid) ==
    LET ids == OrderByPosition(T, TilesAt(T, gid, "board"))
    IN [k \in 1..Len(ids) |->
           [titleID |-> ids[k], board_position |-> T[ids[k]].board_position]]

\* update({ board_position: existingTile.board_position + 1 }).eq('titleID', ..)
ShiftRight(T, existingTile) ==
    [T EXCEPT ![existingTile.titleID].board_position = existingTile.board_position + 1]

\* update(updateData).eq('titleID', tileId).eq('gameID', game.gameID); a request
\* without topValue/bottomValue keeps the stored pips, which is the same write
\* as one carrying them unflipped.
PlaceOnBoard(T, tileId, gid, boardPosition, topValue, bottomValue) ==
    [t \in DOMAIN T |->
        IF t = tileId /\ T[t].gameID = gid
        THEN [T[t] EXCEPT !.location = "board", !.board_position = boardPosition,
                          !.top_value = topValue, !.bottom_value = bottomValue]
        ELSE T[t]]

\* Games.update({ current_turn: nextTurnPlayerId }).eq('gameID', game.gameID)
SetTurn(G, gid, next) == [G EXCEPT ![gid].current_turn = next]

\* update({ location: playerLocation }).eq('titleID', drawnTile.titleID)
MoveDrawnTile(T, tileId, loc) == [T EXCEPT ![tileId].location = loc]

\* Games.update({ boneyard_count: game.boneyard_count - 1, current_turn: .. })
SetCountAndTurn(G, gid, count, next) ==
    [G EXCEPT ![gid].boneyard_count = count, ![gid].current_turn = next]

\* Games.update({ status: 'completed', winner_id: .. }).eq('game_uuid', ..)
SetCompleted(G, uuid, winnerId) ==
    [g \in DOMAIN G |->
        IF G[g].game_uuid = uuid
        THEN [G[g] EXCEPT !.status = "completed", !.winner_id = winnerId]
        ELSE G[g]]

\* GameMoves.insert([{ gameID, player_id, move_type }])
RecordMove(M, gid, playerId, moveType) ==
    Append(M, [gameID |-> gid, player_id |-> playerId, move_type |-> moveType])

\* ------------------------------------------ the client (GameBoard.jsx)
\* loadGameFromDatabase: the board tiles sorted by board_position, as
\* { id, top, bottom }.
boardChain(T, gid) ==
    LET ids == OrderByPosition(T, TilesAt(T, gid, "board"))
    IN [k \in 1..Len(ids) |->
           [id |-> ids[k], top |-> T[ids[k]].top_value, bottom |-> T[ids[k]].bottom_value]]

leftEnd(chain) == chain[1].top
rightEnd(chain) == chain[Len(chain)].bottom

\* canPlayTile: the first tile always, otherwise a pip equal to either end.
canPlayTile(chain, tile) ==
    \/ Len(chain) = 0
    \/ tile.top = leftEnd(chain) \/ tile.top = rightEnd(chain)
    \/ tile.bottom = leftEnd(chain) \/ tile.bottom = rightEnd(chain)

\* playTile, the orientation branches: what the client sends to the API, or
\* ok = FALSE where it returns before any request ('Tile does not match').
playTileRequest(chain, tile, side) ==
    IF Len(chain) = 0
    THEN [ok |-> TRUE, boardPosition |-> 0, top |-> tile.top, bottom |-> tile.bottom]
    ELSE IF side = "left"
    THEN IF tile.bottom = leftEnd(chain)
         THEN [ok |-> TRUE, boardPosition |-> 0, top |-> tile.top, bottom |-> tile.bottom]
         ELSE IF tile.top = leftEnd(chain)
         THEN [ok |-> TRUE, boardPosition |-> 0, top |-> tile.bottom, bottom |-> tile.top]
         ELSE [ok |-> FALSE, boardPosition |-> 0, top |-> tile.top, bottom |-> tile.bottom]
    ELSE IF tile.top = rightEnd(chain)
         THEN [ok |-> TRUE, boardPosition |-> Len(chain), top |-> tile.top,
               bottom |-> tile.bottom]
         ELSE IF tile.bottom = rightEnd(chain)
         THEN [ok |-> TRUE, boardPosition |-> Len(chain), top |-> tile.bottom,
               bottom |-> tile.top]
         ELSE [ok |-> FALSE, boardPosition |-> Len(chain), top |-> tile.top,
               bottom |-> tile.bottom]

\* the hand as the client holds it: { id, top, bottom } of a stored tile.
HandTile(T, t) == [id |-> t, top |-> T[t].top_value, bottom |-> T[t].bottom_value]

\* ------------------------------ the routes, run without interruption
\* POST /:gameUuid/play from its first await to its response, no other
\* request interleaved: the database afterwards.
RECURSIVE ShiftAll(_, _)
ShiftAll(T, existing) ==
    IF existing = <<>> THEN T ELSE ShiftAll(ShiftRight(T, Head(existing)), Tail(existing))

PlaySerial(db, userId, tileId, side, boardPosition, topValue, bottomValue) ==
    LET gid == GameByUuid(db.Games, 1)
        game == db.Games[gid]
        shifted == IF side = "left" /\ boardPosition = 0
                   THEN ShiftAll(db.GameTiles, existingBoardTiles(db.GameTiles, gid))
                   ELSE db.GameTiles
    IN IF gid = 0 \/ game.current_turn # userId
          \/ ~tileToPlayFound(db.GameTiles, tileId, gid, playerLocation(game))
       THEN db
       ELSE [Games |-> SetTurn(db.Games, gid, nextTurnPlayerId(game)),
             GameTiles |-> PlaceOnBoard(shifted, tileId, gid, boardPosition,
                                        topValue, bottomValue),
             GameMoves |-> RecordMove(db.GameMoves, gid, userId, "play_tile")]

\* POST /:gameUuid/draw, likewise; .limit(1) returns the row with the least key.
DrawSerial(db, userId, loc) ==
    LET gid == GameByUuid(db.Games, 1)
        game == db.Games[gid]
        pile == TilesAt(db.GameTiles, gid, "boneyard")
        drawn == CHOOSE t \in pile : \A u \in pile : t <= u
    IN IF gid = 0 \/ game.current_turn # userId \/ game.boneyard_count <= 0 \/ pile = {}
       THEN db
       ELSE [Games |-> SetCountAndTurn(db.Games, gid, game.boneyard_count - 1,
                                       nextTurnPlayerId(game)),
             GameTiles |-> MoveDrawnTile(db.GameTiles, drawn, loc),
             GameMoves |-> RecordMove(db.GameMoves, gid, userId, "draw_tile")]

\* POST /:gameUuid/pass, likewise.
PassSerial(db, userId) ==
    LET gid == GameByUuid(db.Games, 1)
        game == db.Games[gid]
    IN IF gid = 0 \/ game.current_turn # userId
       THEN db
       ELSE [Games |-> SetTurn(db.Games, gid, nextTurnPlayerId(game)),
             GameTiles |-> db.GameTiles,
             GameMoves |-> RecordMove(db.GameMoves, gid, userId, "pass")]

\* One turn of the client of the player whose turn it is: play the first
\* playable tile of the hand (on the right when it fits there), otherwise
\* draw, otherwise (boneyardCount === 0) pass.
ClientTurn(db) ==
    LET gid == GameByUuid(db.Games, 1)
        game == db.Games[gid]
        me == game.current_turn
        myLoc == IF me = game.player1_id THEN "player1_hand" ELSE "player2_hand"
        chain == boardChain(db.GameTiles, gid)
        hand == TilesAt(db.GameTiles, gid, myLoc)
        playable == {t \in hand : canPlayTile(chain, HandTile(db.GameTiles, t))}
        tile == HandTile(db.GameTiles, CHOOSE t \in playable : \A u \in playable : t <= u)
        right == playTileRequest(chain, tile, "right")
        left == playTileRequest(chain, tile, "left")
    IN IF playable # {}
       THEN IF right.ok
            THEN PlaySerial(db, me, tile.id, "right", right.boardPosition,
                            right.top, right.bottom)
            ELSE PlaySerial(db, me, tile.id, "left", left.boardPosition,
                            left.top, left.bottom)
       ELSE IF game.boneyard_count = 0 THEN PassSerial(db, me)
       ELSE DrawSerial(db, me, myLoc)

\* a hand was emptied: the client that played calls endGame instead of going on.
SomeHandEmpty(db) ==
    \E loc \in {"player1_hand", "player2_hand"} : TilesAt(db.GameTiles, 1, loc) = {}

RECURSIVE Replay(_, _)
Replay(db, n) ==
    IF n = 0 \/ SomeHandEmpty(db) THEN db ELSE Replay(ClientTurn(db), n - 1)

\* the database right after accept-challenge created game 1 between users 1
\* and 2 from the shuffle of the given seed.
Dealt(seed) ==
    LET allTiles == generateAndShuffleDominoes(seed)
    IN [Games |-> <<GameRow(1, 1, 2, Len(boneyardOf(allTiles)))>>,
        GameTiles |-> tileInserts(1, allTiles),
        GameMoves |-> <<>>]

\* the boneyard drawn empty by the two clients in turn (the Draw button is
\* enabled whenever it is the player's turn and boneyardCount > 0).
RECURSIVE DrawAll(_)
DrawAll(db) ==
    LET game == db.Games[1]
    IN IF game.boneyard_count = 0 THEN db
       ELSE DrawAll(DrawSerial(db, game.current_turn, playerLocation(game)))

\* ------------------------------------------------------------------- state
VARIABLES
    Games,      \* table Games: gameID -> row
    GameTiles,  \* table GameTiles: titleID -> row
    GameMoves,  \* table GameMoves, in insertion order
    reqs,       \* the HTTP requests in flight: slot -> request
    started,    \* number of HTTP requests begun
    sockets,    \* the connections opened so far: socket id -> socket
    userSocketMap,     \* challengeHandler: userId -> socket id (0: no entry)
    activeChallenges,  \* challengeHandler: challengeId -> challenge
    accepts,    \* the accept-challenge handlers run so far, in order of arrival
    issued,     \* the challenge ids made so far, in order
    now,        \* Date.now()
    activeGames,         \* gameHandler: gameId -> the two players' socket and user ids
    disconnectTimeouts,  \* gameHandler: <<gameId, playerId>> -> timer handle
    timers,     \* the grace timers set so far: handle -> timer
    leaves,     \* the leave-game handlers run so far
    dropped,    \* playerId -> what held when that player's connection dropped
    forfeits,   \* the Games updates the grace timers have made, in order
    out         \* the events the last step emitted: [ev, to], to a socket id or All

dbVars == <<Games, GameTiles, GameMoves>>
httpVars == <<reqs, started>>
chalVars == <<userSocketMap, activeChallenges, accepts, issued>>
gameVars == <<activeGames, disconnectTimeouts, timers, leaves, dropped, forfeits>>
vars == <<Games, GameTiles, GameMoves, reqs, started, sockets, userSocketMap,
          activeChallenges, accepts, issued, now, activeGames, disconnectTimeouts,
          timers, leaves, dropped, forfeits, out>>
\* what the game routes leave alone
notHttp == <<sockets, userSocketMap, activeChallenges, accepts, issued, now, gameVars, out>>

Slots == 1..MaxInflight
Users == 1..3
\* the users who open socket connections
LobbyUsers == {1, 2}
Sides == {"left", "right"}
HandLocations == {"player1_hand", "player2_hand"}
Locations == HandLocations \cup {"board", "boneyard"}

NoGame == [game_uuid |-> 0, player1_id |-> 0, player2_id |-> 0, current_turn |-> 0,
           status |-> "none", winner_id |-> NoWinner, boneyard_count |-> 0]

\* new Map()
EmptyMap == [c \in {} |-> 0]
\* no drop of the player's connection is on record
NoDrop == [bound |-> FALSE, Games |-> <<>>, GameTiles |-> <<>>, live |-> FALSE]

\* a free slot; a finished request keeps its kind, user, tile and status code.
Idle ==
    [kind |-> "none", pc |-> "idle", userId |-> 0, code |-> 0, gid |-> 0,
     game |-> NoGame, tileId |-> 0, side |-> "none", boardPosition |-> 0,
     topValue |-> 0, bottomValue |-> 0, loc |-> "none", pending |-> <<>>, drawn |-> 0,
     wrote |-> FALSE, failed |-> FALSE, notified |-> FALSE]

\* wrote: a table update of the request went through; failed: one did not;
\* notified: the client has sent the socket event that follows its 200.
Respond(r, status) ==
    [Idle EXCEPT !.kind = r.kind, !.pc = "done", !.userId = r.userId,
                 !.tileId = r.tileId, !.side = r.side, !.loc = r.loc, !.code = status,
                 !.wrote = r.wrote, !.failed = r.failed]

\* the request after an update that went through, after one that did not
Wrote(r) == [r EXCEPT !.wrote = TRUE]
Failed(r) == [r EXCEPT !.failed = TRUE]

Free(s) == reqs[s].pc \in {"idle", "done"}

\* the k least elements of a set of numbers
RECURSIVE Lowest(_, _)
Lowest(S, k) ==
    IF k = 0 \/ S = {} THEN {}
    ELSE LET m == CHOOSE t \in S : \A u \in S : t <= u
         IN {m} \cup Lowest(S \ {m}, k - 1)

\* tile ids a play request names: tiles of each hand, of the board and of the
\* boneyard (the route accepts any id and looks it up).
TileChoices ==
    UNION {Lowest(TilesAt(GameTiles, 1, loc), MaxPick) : loc \in HandLocations}
    \cup Lowest(TilesAt(GameTiles, 1, "board"), 1)
    \cup Lowest(TilesAt(GameTiles, 1, "boneyard"), 1)

\* ------------------------------------------------ POST /:gameUuid/play
\* the request body as the client builds it: boardPosition 0 on the left (and
\* for the first tile), the chain's length on the right; the pips as stored
\* or flipped.  The route checks none of it.
PlayBegin(s, u, tileId, side, flip) ==
    LET gid == GameByUuid(Games, 1)
        game == Games[gid]
        chain == boardChain(GameTiles, gid)
        r == [Idle EXCEPT
                !.kind = "play", !.userId = u, !.gid = gid, !.game = game,
                !.tileId = tileId, !.side = side,
                !.boardPosition = IF side = "left" THEN 0 ELSE Len(chain),
                !.topValue = IF flip THEN GameTiles[tileId].bottom_value
                             ELSE GameTiles[tileId].top_value,
                !.bottomValue = IF flip THEN GameTiles[tileId].top_value
                                ELSE GameTiles[tileId].bottom_value]
    IN /\ Free(s)
       /\ started < MaxRequests
       /\ started' = started + 1
       /\ reqs' = [reqs EXCEPT ![s] =
                     IF NotYourTurn(game, u) THEN Respond(r, 403)
                     ELSE [r EXCEPT !.pc = "checkTile"]]
       /\ UNCHANGED <<dbVars, notHttp>>

PlayCheckTile(s) ==
    LET r == reqs[s]
    IN /\ r.kind = "play" /\ r.pc = "checkTile"
       /\ reqs' = [reqs EXCEPT ![s] =
                     IF ~tileToPlayFound(GameTiles, r.tileId, r.gid, playerLocation(r.game))
                     THEN Respond(r, 400)
                     ELSE IF r.side = "left" /\ r.boardPosition = 0
                     THEN [r EXCEPT !.pc = "readBoard"]
                     ELSE [r EXCEPT !.pc = "place"]]
       /\ UNCHANGED <<dbVars, started, notHttp>>

PlayReadBoard(s) ==
    LET r == reqs[s]
        existing == existingBoardTiles(GameTiles, r.gid)
    IN /\ r.kind = "play" /\ r.pc = "readBoard"
       /\ reqs' = [reqs EXCEPT ![s] =
                     [r EXCEPT !.pending = existing,
                               !.pc = IF Len(existing) > 0 THEN "shift" ELSE "place"]]
       /\ UNCHANGED <<dbVars, started, notHttp>>

PlayShift(s) ==
    LET r == reqs[s]
    IN /\ r.kind = "play" /\ r.pc = "shift"
       /\ GameTiles' = ShiftRight(GameTiles, Head(r.pending))
       /\ reqs' = [reqs EXCEPT ![s] =
                     [Wrote(r) EXCEPT !.pending = Tail(r.pending),
                               !.pc = IF Len(r.pending) > 1 THEN "shift" ELSE "place"]]
       /\ UNCHANGED <<Games, GameMoves, started, notHttp>>

\* the tile update and, after it, the GameMoves insert (nothing reads GameMoves)
PlayPlace(s) ==
    LET r == reqs[s]
    IN /\ r.kind = "play" /\ r.pc = "place"
       /\ GameTiles' = PlaceOnBoard(GameTiles, r.tileId, r.gid, r.boardPosition,
                                    r.topValue, r.bottomValue)
       /\ GameMoves' = RecordMove(GameMoves, r.gid, r.userId, "play_tile")
       /\ reqs' = [reqs EXCEPT ![s] = [Wrote(r) EXCEPT !.pc = "turn"]]
       /\ UNCHANGED <<Games, started, notHttp>>

PlayFinish(s) ==
    LET r == reqs[s]
    IN /\ r.kind = "play" /\ r.pc = "turn"
       /\ Games' = SetTurn(Games, r.gid, nextTurnPlayerId(r.game))
       /\ reqs' = [reqs EXCEPT ![s] = Respond(Wrote(r), 200)]
       /\ UNCHANGED <<GameTiles, GameMoves, started, notHttp>>

\* ------------------------------------------------ POST /:gameUuid/draw
\* playerLocation comes from the request body and is written as it is.
DrawLocations == HandLocations \cup {"discard"}

DrawBegin(s, u, loc) ==
    LET gid == GameByUuid(Games, 1)
        game == Games[gid]
        r == [Idle EXCEPT !.kind = "draw", !.userId = u, !.gid = gid, !.game = game,
                          !.loc = loc]
    IN /\ Free(s)
       /\ started < MaxRequests
       /\ started' = started + 1
       /\ reqs' = [reqs EXCEPT ![s] =
                     IF NotYourTurn(game, u) THEN Respond(r, 403)
                     ELSE IF game.boneyard_count <= 0 THEN Respond(r, 400)
                     ELSE [r EXCEPT !.pc = "pick"]]
       /\ UNCHANGED <<dbVars, notHttp>>

\* select('*').eq('location', 'boneyard').limit(1): some boneyard row
DrawPick(s) ==
    LET r == reqs[s]
        pile == TilesAt(GameTiles, r.gid, "boneyard")
    IN /\ r.kind = "draw" /\ r.pc = "pick"
       /\ \/ /\ pile = {}
             /\ reqs' = [reqs EXCEPT ![s] = Respond(r, 400)]
          \/ \E t \in Lowest(pile, MaxPick) :
                reqs' = [reqs EXCEPT ![s] = [r EXCEPT !.drawn = t, !.pc = "move"]]
       /\ UNCHANGED <<dbVars, started, notHttp>>

DrawMove(s) ==
    LET r == reqs[s]
    IN /\ r.kind = "draw" /\ r.pc = "move"
       /\ GameTiles' = MoveDrawnTile(GameTiles, r.drawn, r.loc)
       /\ reqs' = [reqs EXCEPT ![s] = [Wrote(r) EXCEPT !.pc = "count"]]
       /\ UNCHANGED <<Games, GameMoves, started, notHttp>>

\* the Games update and, after it, the GameMoves insert
DrawFinish(s) ==
    LET r == reqs[s]
    IN /\ r.kind = "draw" /\ r.pc = "count"
       /\ Games' = SetCountAndTurn(Games, r.gid, r.game.boneyard_count - 1,
                                   nextTurnPlayerId(r.game))
       /\ GameMoves' = RecordMove(GameMoves, r.gid, r.userId, "draw_tile")
       /\ reqs' = [reqs EXCEPT ![s] = Respond(Wrote(r), 200)]
       /\ UNCHANGED <<GameTiles, started, notHttp>>

\* ------------------------------------------------ POST /:gameUuid/pass
PassBegin(s, u) ==
    LET gid == GameByUuid(Games, 1)
        game == Games[gid]
        r == [Idle EXCEPT !.kind = "pass", !.userId = u, !.gid = gid, !.game = game]
    IN /\ Free(s)
       /\ started < MaxRequests
       /\ started' = started + 1
       /\ reqs' = [reqs EXCEPT ![s] =
                     IF NotYourTurn(game, u) THEN Respond(r, 403)
                     ELSE [r EXCEPT !.pc = "turn"]]
       /\ UNCHANGED <<dbVars, notHttp>>

\* the GameMoves insert and, after it, the Games update
PassFinish(s) ==
    LET r == reqs[s]
    IN /\ r.kind = "pass" /\ r.pc = "turn"
       /\ GameMoves' = RecordMove(GameMoves, r.gid, r.userId, "pass")
       /\ Games' = SetTurn(Games, r.gid, nextTurnPlayerId(r.game))
       /\ reqs' = [reqs EXCEPT ![s] = Respond(Wrote(r), 200)]
       /\ UNCHANGED <<GameTiles, started, notHttp>>

\* ------------------------------------------------- POST /:gameUuid/end
\* one update by game_uuid; winnerId comes from the request body.
EndRequest(s, u, winnerId) ==
    LET r == [Idle EXCEPT !.kind = "end", !.userId = u]
    IN /\ Free(s)
       /\ started < MaxRequests
       /\ started' = started + 1
       /\ Games' = SetCompleted(Games, 1, winnerId)
       /\ reqs' = [reqs EXCEPT ![s] = Respond(Wrote(r), 200)]
       /\ UNCHANGED <<GameTiles, GameMoves, notHttp>>

\* ------------------------------------- the routes when an update fails
\* the persistence call answers { error }; supabase-js does not throw.
\* a shift update of the loop fails: the result is not looked at (line 409)
PlayShiftFails(s) ==
    LET r == reqs[s]
    IN /\ r.kind = "play" /\ r.pc = "shift"
       /\ reqs' = [reqs EXCEPT ![s] =
                     [Failed(r) EXCEPT !.pending = Tail(r.pending),
                                       !.pc = IF Len(r.pending) > 1 THEN "shift" ELSE "place"]]
       /\ UNCHANGED <<dbVars, started, notHttp>>

\* the tile update fails: updateError, 500 (lines 438-441)
PlayPlaceFails(s) ==
    LET r == reqs[s]
    IN /\ r.kind = "play" /\ r.pc = "place"
       /\ reqs' = [reqs EXCEPT ![s] = Respond(Failed(r), 500)]
       /\ UNCHANGED <<dbVars, started, notHttp>>

\* the current_turn update fails: the result is not looked at (lines 459-464)
PlayFinishFails(s) ==
    LET r == reqs[s]
    IN /\ r.kind = "play" /\ r.pc = "turn"
       /\ reqs' = [reqs EXCEPT ![s] = Respond(Failed(r), 200)]
       /\ UNCHANGED <<dbVars, started, notHttp>>

\* the location update fails: updateError, 500 (lines 521-524)
DrawMoveFails(s) ==
    LET r == reqs[s]
    IN /\ r.kind = "draw" /\ r.pc = "move"
       /\ reqs' = [reqs EXCEPT ![s] = Respond(Failed(r), 500)]
       /\ UNCHANGED <<dbVars, started, notHttp>>

\* the boneyard_count and current_turn update fails: not looked at (lines 529-557)
DrawFinishFails(s) ==
    LET r == reqs[s]
    IN /\ r.kind = "draw" /\ r.pc = "count"
       /\ GameMoves' = RecordMove(GameMoves, r.gid, r.userId, "draw_tile")
       /\ reqs' = [reqs EXCEPT ![s] = Respond(Failed(r), 200)]
       /\ UNCHANGED <<Games, GameTiles, started, notHttp>>

\* the current_turn update of a pass fails: not looked at (lines 599-605)
PassFinishFails(s) ==
    LET r == reqs[s]
    IN /\ r.kind = "pass" /\ r.pc = "turn"
       /\ GameMoves' = RecordMove(GameMoves, r.gid, r.userId, "pass")
       /\ reqs' = [reqs EXCEPT ![s] = Respond(Failed(r), 200)]
       /\ UNCHANGED <<Games, GameTiles, started, notHttp>>

\* the status update fails: error, 500 (lines 628-631)
EndRequestFails(s, u, winnerId) ==
    LET r == [Idle EXCEPT !.kind = "end", !.userId = u]
    IN /\ Free(s)
       /\ started < MaxRequests
       /\ started' = started + 1
       /\ reqs' = [reqs EXCEPT ![s] = Respond(Failed(r), 500)]
       /\ UNCHANGED <<dbVars, notHttp>>


\* ------------------------------------------------------ the game routes
\* no HTTP request has arrived
NoRequests ==
    /\ reqs = [s \in Slots |-> Idle]
    /\ started = 0

\* the server process has just started: the handlers' module-level Maps are
\* empty and no connection is open
FreshServer ==
    /\ sockets = <<>>
    /\ userSocketMap = [u \in LobbyUsers |-> 0]
    /\ activeChallenges = EmptyMap
    /\ accepts = <<>>
    /\ issued = <<>>
    /\ now = 0
    /\ activeGames = EmptyMap
    /\ disconnectTimeouts = EmptyMap
    /\ timers = <<>>
    /\ leaves = <<>>
    /\ dropped = [p \in LobbyUsers |-> NoDrop]
    /\ forfeits = <<>>
    /\ out = {}

StartPoints == {<<FALSE, 0>>, <<FALSE, ReplayShort>>, <<TRUE, ReplayLong>>}

Position(seed, start) ==
    Replay(IF start[1] THEN DrawAll(Dealt(seed)) ELSE Dealt(seed), start[2])

Init ==
    \E seed \in 0..MaxSeed, start \in StartPoints :
        /\ Games = Position(seed, start).Games
        /\ GameTiles = Position(seed, start).GameTiles
        /\ GameMoves = Position(seed, start).GameMoves
        /\ NoRequests
        /\ FreshServer

Next ==
    \E s \in Slots :
        \/ \E u \in Users, t \in TileChoices, side \in Sides, flip \in BOOLEAN :
              PlayBegin(s, u, t, side, flip)
        \/ PlayCheckTile(s)
        \/ PlayReadBoard(s)
        \/ PlayShift(s)
        \/ PlayPlace(s)
        \/ PlayFinish(s)
        \/ \E u \in Users, loc \in DrawLocations : DrawBegin(s, u, loc)
        \/ DrawPick(s)
        \/ DrawMove(s)
        \/ DrawFinish(s)
        \/ \E u \in Users : PassBegin(s, u)
        \/ PassFinish(s)
        \/ \E u \in Users, w \in Users : EndRequest(s, u, w)

Spec == Init /\ [][Next]_vars

\* ------------------------------------------------------ challengeHandler.js
SocketIds == 1..MaxSockets
Connected(k) == k \in DOMAIN sockets /\ sockets[k].connected
\* io.emit reaches every socket
All == 0
Event(ev, to) == [ev |-> ev, to |-> to]
MapDelete(m, keys) == [c \in DOMAIN m \ keys |-> m[c]]
MapSet(m, key, value) == [c \in DOMAIN m \cup {key} |-> IF c = key THEN value ELSE m[c]]

\* a socket whose connection is gone; the object and its userId go with it
Closed == [connected |-> FALSE, userId |-> 0, rooms |-> {}]

\* io.on('connection'): a fresh socket id
ConnectUpTo(n) ==
    /\ Len(sockets) < n
    /\ sockets' = Append(sockets, [connected |-> TRUE, userId |-> 0, rooms |-> {}])
    /\ out' = ({})
    /\ UNCHANGED <<dbVars, httpVars, gameVars, chalVars, now>>

Connect == ConnectUpTo(MaxSockets)

\* socket.on('register-user'); one connection serves one logged-in user
RegisterUser(k, id) ==
    /\ Connected(k)
    /\ sockets[k].userId \in {0, id}
    /\ userSocketMap' = [userSocketMap EXCEPT ![id] = k]
    /\ sockets' = [sockets EXCEPT ![k].userId = id]
    /\ out' = ({})
    /\ UNCHANGED <<dbVars, httpVars, gameVars, activeChallenges, accepts, issued, now>>

\* socket.on('send-challenge'); the client names itself as challengerId. The
\* millisecond clock in the id is different for every event: the serial number
\* of the event stands for it. The timestamp field is the model's clock.
SendChallenge(k, targetId) ==
    /\ Connected(k)
    /\ sockets[k].userId \notin {0, targetId}
    /\ Len(issued) < MaxChallenges
    /\ LET challengerId == sockets[k].userId
           challengeId == <<challengerId, targetId, Len(issued) + 1>>
           targetSocketId == userSocketMap[targetId]
       IN /\ activeChallenges' = MapSet(activeChallenges, challengeId,
                 [challengeId |-> challengeId, challengerId |-> challengerId,
                  targetId |-> targetId, timestamp |-> now])
          /\ issued' = Append(issued, challengeId)
          /\ out' = (IF targetSocketId # 0
                 THEN {Event("challenge-received", targetSocketId)}
                 ELSE {Event("challenge-error", k)})
    /\ UNCHANGED <<dbVars, httpVars, gameVars, sockets, userSocketMap, accepts, now>>

\* a handler that has returned: its locals are gone, the record keeps what it
\* did (how it ended, for which challenge, which game row it made)
Returned(r, pc) ==
    [pc |-> pc, sock |-> 0, challengeId |-> r.challengeId, challenge |-> r.challenge,
     challengerSocketId |-> 0, targetSocketId |-> 0, allTiles |-> <<>>,
     gameID |-> r.gameID]

\* the ids a client can name: every id made so far
ChallengeIds == {issued[n] : n \in DOMAIN issued}

\* accept-challenge up to its first await (lines 81-153)
AcceptBegin(k, challengeId, seed) ==
    /\ Connected(k)
    /\ Len(accepts) < MaxAccepts
    /\ IF challengeId \notin DOMAIN activeChallenges
       THEN /\ accepts' = Append(accepts,
                   [pc |-> "notFound", sock |-> 0, challengeId |-> challengeId,
                    challenge |-> <<>>, challengerSocketId |-> 0, targetSocketId |-> 0,
                    allTiles |-> <<>>, gameID |-> 0])
            /\ out' = ({Event("challenge-error", k)})
       ELSE LET challenge == activeChallenges[challengeId]
            IN /\ accepts' = Append(accepts,
                      [pc |-> "insertGame", sock |-> k, challengeId |-> challengeId,
                       challenge |-> challenge,
                       challengerSocketId |-> userSocketMap[challenge.challengerId],
                       targetSocketId |-> userSocketMap[challenge.targetId],
                       allTiles |-> generateAndShuffleDominoes(seed), gameID |-> 0])
               /\ out' = ({})
    /\ UNCHANGED <<dbVars, httpVars, gameVars, sockets, userSocketMap, activeChallenges, issued, now>>

\* the Games insert answers (lines 141-159); gameError when ok is FALSE
AcceptInsertGame(a, ok) ==
    /\ a \in DOMAIN accepts
    /\ accepts[a].pc = "insertGame"
    /\ LET r == accepts[a]
           gameID == Len(Games) + 1
       IN IF ok
          THEN /\ Games' = Append(Games, GameRow(gameID, r.challenge.challengerId,
                                    r.challenge.targetId, Len(boneyardOf(r.allTiles))))
               /\ accepts' = [accepts EXCEPT ![a].pc = "insertTiles", ![a].gameID = gameID]
               /\ out' = ({})
          ELSE /\ accepts' = [accepts EXCEPT ![a] = Returned(r, "gameError")]
               /\ out' = ({Event("challenge-error", r.sock)})
               /\ UNCHANGED Games
    /\ UNCHANGED <<GameTiles, GameMoves, httpVars, gameVars, sockets, userSocketMap,
                   activeChallenges, issued, now>>

\* the GameTiles insert answers and the handler runs to its end (lines 170-217)
AcceptInsertTiles(a, ok) ==
    /\ a \in DOMAIN accepts
    /\ accepts[a].pc = "insertTiles"
    /\ LET r == accepts[a]
       IN IF ok
          THEN /\ GameTiles' = GameTiles \o tileInserts(r.gameID, r.allTiles)
               /\ accepts' = [accepts EXCEPT ![a] = Returned(r, "started")]
               /\ activeChallenges' = MapDelete(activeChallenges, {r.challengeId})
               /\ out' = ({Event("game-start", to) :
                           to \in {r.challengerSocketId, r.targetSocketId} \ {0}}
                      \cup {Event("user-busy", All)})
          ELSE /\ accepts' = [accepts EXCEPT ![a] = Returned(r, "tilesError")]
               /\ out' = ({Event("challenge-error", r.sock)})
               /\ UNCHANGED <<GameTiles, activeChallenges>>
    /\ UNCHANGED <<Games, GameMoves, httpVars, gameVars, sockets, userSocketMap, issued, now>>

\* decline-challenge without its activeChallenges.delete
DeclineChallengeKeeps(k, challengeId) ==
    /\ Connected(k)
    /\ IF challengeId \notin DOMAIN activeChallenges
       THEN out' = ({})
       ELSE LET challengerSocketId == userSocketMap[activeChallenges[challengeId].challengerId]
            IN out' = (IF challengerSocketId # 0
                       THEN {Event("challenge-declined", challengerSocketId)} ELSE {})
    /\ UNCHANGED <<dbVars, httpVars, gameVars, sockets, userSocketMap, activeChallenges,
                   accepts, issued, now>>

\* socket.on('decline-challenge')
DeclineChallenge(k, challengeId) ==
    /\ Connected(k)
    /\ IF challengeId \notin DOMAIN activeChallenges
       THEN /\ out' = ({})
            /\ UNCHANGED activeChallenges
       ELSE LET challengerSocketId == userSocketMap[activeChallenges[challengeId].challengerId]
            IN /\ out' = (IF challengerSocketId # 0
                      THEN {Event("challenge-declined", challengerSocketId)} ELSE {})
               /\ activeChallenges' = MapDelete(activeChallenges, {challengeId})
    /\ UNCHANGED <<dbVars, httpVars, gameVars, sockets, userSocketMap, accepts, issued, now>>

\* the disconnect listener looking at challenge.challengerId only
ChallengeDisconnectOwnOnly(k, map, challenges) ==
    IF sockets[k].userId # 0
    THEN [userSocketMap |-> [map EXCEPT ![sockets[k].userId] = 0],
          activeChallenges |-> MapDelete(challenges,
              {c \in DOMAIN challenges : challenges[c].challengerId = sockets[k].userId})]
    ELSE [userSocketMap |-> map, activeChallenges |-> challenges]

\* challengeHandler's socket.on('disconnect')
ChallengeDisconnect(k, map, challenges) ==
    IF sockets[k].userId # 0
    THEN [userSocketMap |-> [map EXCEPT ![sockets[k].userId] = 0],
          activeChallenges |-> MapDelete(challenges,
              {c \in DOMAIN challenges :
                  \/ challenges[c].challengerId = sockets[k].userId
                  \/ challenges[c].targetId = sockets[k].userId})]
    ELSE [userSocketMap |-> map, activeChallenges |-> challenges]

\* ----------------------------------------------------------- gameHandler.js
\* activeGames.set(gameId, {})
NoPlayers == [player1SocketId |-> 0, player2SocketId |-> 0, player1Id |-> 0, player2Id |-> 0]
GameIds == DOMAIN Games
Room(gameId) == {m \in DOMAIN sockets : gameId \in sockets[m].rooms}
\* io.to(gameId).emit(ev), socket.to(gameId).emit(ev) with except = {socket.id}
ToRoom(ev, gameId, except) == {Event(ev, m) : m \in Room(gameId) \ except}
\* the two guarded io.emit('user-available')
Available(player1Id, player2Id) ==
    IF player1Id # 0 \/ player2Id # 0 THEN {Event("user-available", All)} ELSE {}
\* clearTimeout: a timer that has not fired yet never will
clearTimeout(T, h) == [T EXCEPT ![h].pc = IF @ = "armed" THEN "cleared" ELSE @]
NoDrops == [p \in LobbyUsers |-> NoDrop]
\* the update without its .eq('game_uuid', gameId)
SetForfeitEvery(G, uuid, winnerId) ==
    [g \in DOMAIN G |-> [G[g] EXCEPT !.status = "completed",
                                     !.winner_id = IF winnerId = 0 THEN @ ELSE winnerId]]

\* update({ status: 'completed', winner_id }): an undefined winner_id is not sent
SetForfeit(G, uuid, winnerId) ==
    IF winnerId = 0
    THEN [g \in DOMAIN G |->
            IF G[g].game_uuid = uuid THEN [G[g] EXCEPT !.status = "completed"] ELSE G[g]]
    ELSE SetCompleted(G, uuid, winnerId)

\* socket.on('join-game'); the client names itself as playerId
JoinGame(k, gameId, playerId) ==
    /\ Connected(k)
    /\ sockets[k].userId \in {0, playerId}
    /\ LET game == IF gameId \in DOMAIN activeGames THEN activeGames[gameId] ELSE NoPlayers
           timeoutKey == <<gameId, playerId>>
       IN /\ sockets' = [sockets EXCEPT ![k].rooms = @ \cup {gameId}]
          /\ timers' = IF timeoutKey \in DOMAIN disconnectTimeouts
                       THEN clearTimeout(timers, disconnectTimeouts[timeoutKey])
                       ELSE timers
          /\ disconnectTimeouts' = MapDelete(disconnectTimeouts, {timeoutKey})
          /\ activeGames' = MapSet(activeGames, gameId,
                IF game.player1Id = playerId THEN [game EXCEPT !.player1SocketId = k]
                ELSE IF game.player2Id = playerId THEN [game EXCEPT !.player2SocketId = k]
                ELSE IF game.player1SocketId = 0
                     THEN [game EXCEPT !.player1SocketId = k, !.player1Id = playerId]
                ELSE IF game.player2SocketId = 0
                     THEN [game EXCEPT !.player2SocketId = k, !.player2Id = playerId]
                ELSE game)
    /\ dropped' = [dropped EXCEPT ![playerId] = NoDrop]
    /\ out' = {}
    /\ UNCHANGED <<dbVars, httpVars, chalVars, now, leaves, forfeits>>

\* socket.on('play-tile'), ('draw-tile'), ('pass-turn'): relayed to the room
RelayEvents == {"opponent-played", "opponent-drew", "opponent-passed"}
Relay(k, gameId, ev) ==
    /\ Connected(k)
    /\ out' = ToRoom(ev, gameId, {k})
    /\ UNCHANGED <<dbVars, httpVars, chalVars, now, sockets, gameVars>>

\* socket.on('end-game')
EndGame(k, gameId) ==
    /\ Connected(k)
    /\ LET game == IF gameId \in DOMAIN activeGames THEN activeGames[gameId] ELSE NoPlayers
       IN out' = ToRoom("game-ended", gameId, {})
                     \cup Available(game.player1Id, game.player2Id)
    /\ activeGames' = MapDelete(activeGames, {gameId})
    /\ dropped' = NoDrops
    /\ UNCHANGED <<dbVars, httpVars, chalVars, now, sockets, disconnectTimeouts,
                   timers, leaves, forfeits>>

\* socket.on('leave-game') up to its await (lines 163-191)
LeaveBegin(k, gameId) ==
    /\ Connected(k)
    /\ Len(leaves) < MaxLeaves
    /\ IF gameId \notin DOMAIN activeGames
       THEN /\ leaves' = Append(leaves,
                  [pc |-> "returned", sock |-> 0, gameId |-> gameId, player1Id |-> 0,
                   player2Id |-> 0, remainingPlayerId |-> 0])
            /\ UNCHANGED <<timers, disconnectTimeouts>>
       ELSE LET game == activeGames[gameId]
                leavingPlayerId == IF game.player1SocketId = k THEN game.player1Id
                                   ELSE IF game.player2SocketId = k THEN game.player2Id
                                   ELSE 0
                remainingPlayerId == IF leavingPlayerId = game.player1Id
                                     THEN game.player2Id ELSE game.player1Id
                timeoutKey == <<gameId, leavingPlayerId>>
            IN /\ leaves' = Append(leaves,
                     [pc |-> "update", sock |-> k, gameId |-> gameId,
                      player1Id |-> game.player1Id, player2Id |-> game.player2Id,
                      remainingPlayerId |-> remainingPlayerId])
               /\ timers' = IF leavingPlayerId # 0 /\ timeoutKey \in DOMAIN disconnectTimeouts
                            THEN clearTimeout(timers, disconnectTimeouts[timeoutKey])
                            ELSE timers
               /\ disconnectTimeouts' =
                     IF leavingPlayerId # 0
                     THEN MapDelete(disconnectTimeouts, {timeoutKey})
                     ELSE disconnectTimeouts
    /\ dropped' = NoDrops
    /\ out' = {}
    /\ UNCHANGED <<dbVars, httpVars, chalVars, now, sockets, activeGames, forfeits>>

\* the Games update answers and leave-game runs to its end (lines 193-212)
LeaveFinish(l, ok) ==
    /\ l \in DOMAIN leaves
    /\ leaves[l].pc = "update"
    /\ LET r == leaves[l]
       IN /\ Games' = IF ok THEN SetForfeit(Games, r.gameId, r.remainingPlayerId) ELSE Games
          /\ out' = ToRoom("opponent-disconnected", r.gameId, {r.sock})
                        \cup Available(r.player1Id, r.player2Id)
          /\ activeGames' = MapDelete(activeGames, {r.gameId})
          /\ leaves' = [leaves EXCEPT ![l].pc = "returned", ![l].sock = 0]
    /\ dropped' = NoDrops
    /\ UNCHANGED <<GameTiles, GameMoves, httpVars, chalVars, now, sockets,
                   disconnectTimeouts, timers, forfeits>>

\* a disconnect listener that ends the games of the socket at once
GameDisconnectEnds(k, ids, st) ==
    [st EXCEPT !.activeGames =
        MapDelete(@, {g \in ids : k \in {@[g].player1SocketId, @[g].player2SocketId}})]

\* gameHandler's socket.on('disconnect'): the loop over activeGames, in key
\* order; st carries activeGames, disconnectTimeouts, timers and dropped
RECURSIVE GameDisconnect(_, _, _)
GameDisconnect(k, ids, st) ==
    IF ids = {} THEN st
    ELSE LET gameId == CHOOSE g \in ids : \A h \in ids : g <= h
             game == st.activeGames[gameId]
             disconnectedPlayerId == IF game.player1SocketId = k THEN game.player1Id
                                     ELSE IF game.player2SocketId = k THEN game.player2Id
                                     ELSE 0
             timeoutKey == <<gameId, disconnectedPlayerId>>
         IN GameDisconnect(k, ids \ {gameId},
              [activeGames |-> [st.activeGames EXCEPT ![gameId] =
                    IF game.player1SocketId = k THEN [game EXCEPT !.player1SocketId = 0]
                    ELSE IF game.player2SocketId = k THEN [game EXCEPT !.player2SocketId = 0]
                    ELSE game],
               timers |-> IF disconnectedPlayerId # 0
                          THEN Append(st.timers,
                                 [pc |-> "armed", gameId |-> gameId,
                                  disconnectedPlayerId |-> disconnectedPlayerId,
                                  player1Id |-> 0, player2Id |-> 0,
                                  remainingPlayerId |-> 0])
                          ELSE st.timers,
               disconnectTimeouts |-> IF disconnectedPlayerId # 0
                                      THEN MapSet(st.disconnectTimeouts, timeoutKey,
                                                  Len(st.timers) + 1)
                                      ELSE st.disconnectTimeouts,
               dropped |-> IF disconnectedPlayerId # 0
                           THEN [st.dropped EXCEPT ![disconnectedPlayerId] =
                                   [bound |-> userSocketMap[disconnectedPlayerId] # 0,
                                    Games |-> Games, GameTiles |-> GameTiles,
                                    live |-> TRUE]]
                           ELSE st.dropped])

\* a grace timer fires (lines 235-254): timers of one delay fire in the order
\* they were set; the callback runs up to its await
TimerFire(h) ==
    /\ h \in DOMAIN timers
    /\ timers[h].pc = "armed"
    /\ \A e \in 1..(h - 1) : timers[e].pc # "armed"
    /\ LET t == timers[h]
       IN IF t.gameId \notin DOMAIN activeGames
          THEN timers' = [timers EXCEPT ![h].pc = "returned"]
          ELSE LET currentGame == activeGames[t.gameId]
               IN timers' = [timers EXCEPT
                     ![h].pc = "update",
                     ![h].player1Id = currentGame.player1Id,
                     ![h].player2Id = currentGame.player2Id,
                     ![h].remainingPlayerId =
                         IF t.disconnectedPlayerId = currentGame.player1Id
                         THEN currentGame.player2Id ELSE currentGame.player1Id]
    /\ dropped' = NoDrops
    /\ out' = {}
    /\ UNCHANGED <<dbVars, httpVars, chalVars, now, sockets, activeGames,
                   disconnectTimeouts, leaves, forfeits>>

\* the Games update answers and the callback runs to its end (lines 256-276)
TimerFinish(h, ok) ==
    /\ h \in DOMAIN timers
    /\ timers[h].pc = "update"
    /\ LET t == timers[h]
       IN /\ Games' = IF ok THEN SetForfeit(Games, t.gameId, t.remainingPlayerId) ELSE Games
          /\ forfeits' = IF ok
                         THEN Append(forfeits, [gameId |-> t.gameId,
                                                winner_id |-> t.remainingPlayerId])
                         ELSE forfeits
          /\ out' = ToRoom("opponent-disconnected", t.gameId, {})
                        \cup Available(t.player1Id, t.player2Id)
          /\ activeGames' = MapDelete(activeGames, {t.gameId})
          /\ disconnectTimeouts' =
                MapDelete(disconnectTimeouts, {<<t.gameId, t.disconnectedPlayerId>>})
          /\ timers' = [timers EXCEPT ![h].pc = "returned"]
    /\ dropped' = NoDrops
    /\ UNCHANGED <<GameTiles, GameMoves, httpVars, chalVars, now, sockets, leaves>>

\* the connection drops: every 'disconnect' listener of the socket runs
Disconnect(k) ==
    /\ Connected(k)
    /\ sockets' = [sockets EXCEPT ![k] = Closed]
    /\ LET c == ChallengeDisconnect(k, userSocketMap, activeChallenges)
           g == GameDisconnect(k, DOMAIN activeGames,
                    [activeGames |-> activeGames, timers |-> timers,
                     disconnectTimeouts |-> disconnectTimeouts, dropped |-> dropped])
       IN /\ userSocketMap' = c.userSocketMap
          /\ activeChallenges' = c.activeChallenges
          /\ activeGames' = g.activeGames
          /\ timers' = g.timers
          /\ disconnectTimeouts' = g.disconnectTimeouts
          /\ dropped' = g.dropped
    /\ out' = {}
    /\ UNCHANGED <<dbVars, httpVars, accepts, issued, now, leaves, forfeits>>

\* the setInterval callback (lines 263-272)
SweepKeepsAll(challenges, t) == challenges

Sweep(challenges, t) ==
    MapDelete(challenges, {c \in DOMAIN challenges : t - challenges[c].timestamp > EXPIRY})

\* the clock moves on by half a sweep interval; the sweep runs when it is due
TimeStep == SweepInterval \div 2
Tick ==
    /\ now < MaxTicks * TimeStep
    /\ now' = now + TimeStep
    /\ activeChallenges' = IF now' % SweepInterval = 0
                           THEN Sweep(activeChallenges, now') ELSE activeChallenges
    /\ out' = ({})
    /\ UNCHANGED <<dbVars, httpVars, gameVars, sockets, userSocketMap, accepts, issued>>

InitChallenge ==
    /\ Games = <<>>
    /\ GameTiles = <<>>
    /\ GameMoves = <<>>
    /\ NoRequests
    /\ FreshServer

NextChallenge ==
    \/ Connect
    \/ \E k \in SocketIds, id \in LobbyUsers : RegisterUser(k, id)
    \/ \E k \in SocketIds, targetId \in LobbyUsers : SendChallenge(k, targetId)
    \/ \E k \in SocketIds, c \in ChallengeIds, seed \in 0..MaxSeed : AcceptBegin(k, c, seed)
    \/ \E a \in 1..MaxAccepts, ok \in BOOLEAN : AcceptInsertGame(a, ok)
    \/ \E a \in 1..MaxAccepts, ok \in BOOLEAN : AcceptInsertTiles(a, ok)
    \/ \E k \in SocketIds, c \in ChallengeIds : DeclineChallenge(k, c)
    \/ \E k \in SocketIds : Disconnect(k)

SpecChallenge == InitChallenge /\ [][NextChallenge]_vars
\* ------------------------------------------ a game with failing updates
\* Both players have connected, registered and joined the room of game 1.
Seated(u) == [connected |-> TRUE, userId |-> u, rooms |-> {1}]

InitFaulty ==
    /\ Games = Position(0, <<FALSE, ReplayShort>>).Games
    /\ GameTiles = Position(0, <<FALSE, ReplayShort>>).GameTiles
    /\ GameMoves = Position(0, <<FALSE, ReplayShort>>).GameMoves
    /\ NoRequests
    /\ sockets = <<Seated(1), Seated(2)>>
    /\ userSocketMap = [u \in LobbyUsers |-> u]
    /\ activeGames = MapSet(EmptyMap, 1, [player1SocketId |-> 1, player2SocketId |-> 2,
                                          player1Id |-> 1, player2Id |-> 2])
    /\ activeChallenges = EmptyMap
    /\ accepts = <<>>
    /\ issued = <<>>
    /\ now = 0
    /\ disconnectTimeouts = EmptyMap
    /\ timers = <<>>
    /\ leaves = <<>>
    /\ dropped = NoDrops
    /\ forfeits = <<>>
    /\ out = {}

\* the event the client emits once its request has been answered with 200
EmitAfter(kind) ==
    CASE kind = "play" -> "opponent-played"
      [] kind = "draw" -> "opponent-drew"
      [] kind = "pass" -> "opponent-passed"
      [] OTHER -> "game-ended"

\* The client's `await api...` has returned (api.request throws unless the
\* answer is 2xx), it emits play-tile, draw-tile, pass-turn or end-game on its
\* socket k, and the server's listener relays it.
Notify(s, k) ==
    LET r == reqs[s]
        game == IF 1 \in DOMAIN activeGames THEN activeGames[1] ELSE NoPlayers
    IN /\ r.pc = "done" /\ r.code = 200 /\ ~r.notified
       /\ Connected(k) /\ sockets[k].userId = r.userId
       /\ reqs' = [reqs EXCEPT ![s].notified = TRUE]
       /\ IF r.kind = "end"
          THEN /\ out' = ToRoom("game-ended", 1, {}) \cup Available(game.player1Id, game.player2Id)
               /\ activeGames' = MapDelete(activeGames, {1})
          ELSE /\ out' = ToRoom(EmitAfter(r.kind), 1, {k})
               /\ UNCHANGED activeGames
       /\ UNCHANGED <<dbVars, started, chalVars, now, sockets, disconnectTimeouts,
                      timers, leaves, dropped, forfeits>>

\* the requests of this specification are served one after the other
FaultySlots == {1}

NextFaulty ==
    \/ \E s \in FaultySlots :
        \/ \E u \in LobbyUsers, t \in TileChoices, side \in Sides, flip \in BOOLEAN :
              PlayBegin(s, u, t, side, flip)
        \/ PlayCheckTile(s)
        \/ PlayReadBoard(s)
        \/ PlayShift(s)
        \/ (~reqs[s].failed /\ PlayShiftFails(s))   \* one lost shift per request
        \/ PlayPlace(s)
        \/ PlayPlaceFails(s)
        \/ PlayFinish(s)
        \/ PlayFinishFails(s)
        \/ \E u \in LobbyUsers, loc \in DrawLocations : DrawBegin(s, u, loc)
        \/ DrawPick(s)
        \/ DrawMove(s)
        \/ DrawMoveFails(s)
        \/ DrawFinish(s)
        \/ DrawFinishFails(s)
        \/ \E u \in LobbyUsers : PassBegin(s, u)
        \/ PassFinish(s)
        \/ PassFinishFails(s)
        \/ \E u \in LobbyUsers, w \in LobbyUsers : EndRequest(s, u, w)
        \/ \E u \in LobbyUsers, w \in LobbyUsers : EndRequestFails(s, u, w)
        \/ \E k \in SocketIds : Notify(s, k)

SpecFaulty == InitFaulty /\ [][NextFaulty]_vars


\* one game, dealt and untouched, on a server that has just started
InitLifecycle ==
    /\ Games = Dealt(0).Games
    /\ GameTiles = Dealt(0).GameTiles
    /\ GameMoves = Dealt(0).GameMoves
    /\ NoRequests
    /\ FreshServer

NextLifecycle ==
    \/ Connect
    \/ \E k \in SocketIds, id \in LobbyUsers : RegisterUser(k, id)
    \/ \E k \in SocketIds, g \in GameIds, p \in LobbyUsers : JoinGame(k, g, p)
    \/ \E k \in SocketIds, g \in GameIds, ev \in RelayEvents : Relay(k, g, ev)
    \/ \E k \in SocketIds, g \in GameIds : EndGame(k, g)
    \/ \E k \in SocketIds, g \in GameIds : LeaveBegin(k, g)
    \/ \E l \in 1..MaxLeaves, ok \in BOOLEAN : LeaveFinish(l, ok)
    \/ \E k \in SocketIds : Disconnect(k)
    \/ \E h \in SocketIds : TimerFire(h)
    \/ \E h \in SocketIds, ok \in BOOLEAN : TimerFinish(h, ok)

SpecLifecycle == InitLifecycle /\ [][NextLifecycle]_vars


\* ------------------------------------------------- claims: the game routes
HandOf(u) == IF u = Games[1].player1_id THEN "player1_hand" ELSE "player2_hand"
Opponent(u) == IF u = Games[1].player1_id THEN Games[1].player2_id ELSE Games[1].player1_id
Hand(T, loc) == TilesAt(T, 1, loc)

\* the tile of a play request as the client holds it, and whether it fits the
\* open end of the chosen side of the chain
FitsSide(chain, tile, side) ==
    \/ Len(chain) = 0
    \/ side = "left" /\ (tile.top = leftEnd(chain) \/ tile.bottom = leftEnd(chain))
    \/ side = "right" /\ (tile.top = rightEnd(chain) \/ tile.bottom = rightEnd(chain))

OtherPip(tile, pip) == IF tile.top = pip THEN tile.bottom ELSE tile.top

\* C1: tile conservation.  In every reachable state each of the 28 tiles of
\* the game is in exactly one of player 1's hand, player 2's hand, the board
\* chain and the boneyard: the four sets together hold 28 tiles.
C1_TileConservation ==
    /\ \A t \in DOMAIN GameTiles : GameTiles[t].location \in Locations
    /\ Cardinality(Hand(GameTiles, "player1_hand"))
         + Cardinality(Hand(GameTiles, "player2_hand"))
         + Cardinality(Hand(GameTiles, "board"))
         + Cardinality(Hand(GameTiles, "boneyard")) = Len(DominoSet)

\* C2: matching correctness.  The step of a play request that moves the tile
\* to the board happens only if the chain is empty or a pip of the tile equals
\* the open end of the chosen side, and then (on a non-empty chain) that side's
\* new open end is the tile's other pip; a play by the player in turn, with a
\* tile of their hand that fits, is not rejected.
C2_MatchingCorrectness ==
    [][\A s \in Slots :
          LET r == reqs[s]
              chain == boardChain(GameTiles, 1)
              after == boardChain(GameTiles', 1)
              tile == HandTile(GameTiles, r.tileId)
          IN /\ (r.kind = "play" /\ r.pc = "place" /\ reqs'[s].pc = "turn") =>
                   /\ FitsSide(chain, tile, r.side)
                   /\ (Len(chain) > 0 /\ r.side = "left") =>
                          leftEnd(after) = OtherPip(tile, leftEnd(chain))
                   /\ (Len(chain) > 0 /\ r.side = "right") =>
                          rightEnd(after) = OtherPip(tile, rightEnd(chain))
             /\ (r.kind = "play" /\ r.pc = "checkTile" /\ reqs'[s].code = 400) =>
                   ~(/\ r.tileId \in Hand(GameTiles, HandOf(r.userId))
                     /\ FitsSide(chain, tile, r.side))
      ]_vars

\* C3: turn alternation.  The step that completes a successful play, draw or
\* pass leaves current_turn at the other player of the game, except that a
\* winning play (the actor's hand is empty) instead sets status to completed
\* and does not hand the turn to the opponent.
FinishStep(s) ==
    /\ reqs[s].kind \in {"play", "draw", "pass"}
    /\ reqs[s].pc \notin {"idle", "done"}
    /\ reqs'[s].pc = "done" /\ reqs'[s].code = 200

C3_TurnAlternation ==
    [][\A s \in Slots :
          LET u == reqs[s].userId
              wins == reqs[s].kind = "play" /\ Hand(GameTiles', HandOf(u)) = {}
          IN FinishStep(s) =>
                /\ Games'[1].current_turn \in {Games[1].player1_id, Games[1].player2_id}
                /\ ~wins => Games'[1].current_turn = Opponent(u)
                /\ wins => /\ Games'[1].status = "completed"
                           /\ Games'[1].current_turn # Opponent(u)
      ]_vars

\* C4: win condition.  Once the play that emptied a hand has been answered,
\* the game is completed with that player as winner: no state with no request
\* in flight has an empty hand in a game that is still active.
C4_WinCompletesGame ==
    (\A s \in Slots : Free(s)) =>
        \A u \in {Games[1].player1_id, Games[1].player2_id} :
            Hand(GameTiles, HandOf(u)) = {} =>
                Games[1].status = "completed" /\ Games[1].winner_id = u

\* C10: mutating requests on one game are mutually exclusive.  Executed one at
\* a time, every accepted play, draw or pass is by the player in turn and
\* flips the turn, so two requests of the same player in the same turn cannot
\* both succeed: consecutive rows of GameMoves are by different players.
C10_MovesSerializable ==
    \A i \in 1..(Len(GameMoves) - 1) :
        GameMoves[i].player_id # GameMoves[i + 1].player_id

\* the accept-challenge handlers that made a game row
MadeGame(a) == accepts[a].gameID # 0

\* C7: every challenge yields at most one game. An accept-challenge that finds
\* no challenge under the id creates nothing, and of the accept-challenge
\* handlers run for one challenge id, however their steps interleave, at most
\* one inserts a game row.
C7_OneGamePerChallenge ==
    /\ \A a \in DOMAIN accepts : accepts[a].pc = "notFound" => ~MadeGame(a)
    /\ \A a, b \in DOMAIN accepts :
          (a # b /\ accepts[a].challengeId = accepts[b].challengeId)
              => ~(MadeGame(a) /\ MadeGame(b))

\* the step is a send-challenge: it made a new challenge id
SendStep == issued' # issued
NewId == issued'[Len(issued')]

\* C8: send-challenge stores the challenge iff the target has an entry in the
\* presence map. With no entry only the sender's socket gets challenge-error
\* and nothing is stored; with an entry the challenge is stored and
\* challenge-received goes to the target's socket alone.
C8_StoredIffReachable ==
    [][SendStep =>
          IF userSocketMap[NewId[2]] # 0
          THEN /\ NewId \in DOMAIN activeChallenges'
               /\ out' = {Event("challenge-received", userSocketMap[NewId[2]])}
          ELSE /\ NewId \notin DOMAIN activeChallenges'
               /\ \E k \in SocketIds :
                     /\ Connected(k)
                     /\ sockets[k].userId = NewId[1]
                     /\ out' = {Event("challenge-error", k)}]_vars

\* the step in which accept-challenge handler a runs to its successful end
StartedStep(a) ==
    /\ a \in DOMAIN accepts
    /\ accepts[a].pc = "insertTiles"
    /\ accepts'[a].pc = "started"

\* C9: a successful accept-challenge leaves a game row with status active, no
\* winner, the challenger as player 1, the target as player 2 and player 1 to
\* move, and 28 tile rows of that game: 7 in each hand, 14 in the boneyard,
\* none on the board.
C9_AcceptCreatesGame ==
    [][\A a \in 1..MaxAccepts :
          StartedStep(a) =>
              LET r == accepts'[a]
                  g == Games'[r.gameID]
                  at(loc) == Cardinality(TilesAt(GameTiles', r.gameID, loc))
              IN /\ g.status = "active"
                 /\ g.winner_id = 0
                 /\ g.player1_id = r.challenge.challengerId
                 /\ g.player2_id = r.challenge.targetId
                 /\ g.current_turn = g.player1_id
                 /\ at("player1_hand") = 7
                 /\ at("player2_hand") = 7
                 /\ at("boneyard") = 14
                 /\ at("board") = 0
                 /\ Cardinality({t \in DOMAIN GameTiles' :
                                    GameTiles'[t].gameID = r.gameID}) = 28]_vars

\* an accept-challenge has run to its end and its game has a 14-tile boneyard
C9_Witness ==
    \E a \in DOMAIN accepts :
        /\ accepts[a].pc = "started"
        /\ Cardinality(TilesAt(GameTiles, accepts[a].gameID, "boneyard")) = 14

\* C5: forfeiture happens exactly once. However the disconnects and the expiries
\* of the grace timers interleave, the timers write at most one forfeiture to
\* one game, so no second write and no second winner.
C5_ForfeitOnce ==
    \A i, j \in DOMAIN forfeits : forfeits[i].gameId = forfeits[j].gameId => i = j

\* the socket activeGames holds for player p of game g, 0 when there is none
SlotSocket(G, g, p) ==
    IF g \notin DOMAIN G THEN 0
    ELSE IF G[g].player1Id = p THEN G[g].player1SocketId
    ELSE IF G[g].player2Id = p THEN G[g].player2SocketId
    ELSE 0

\* the step is player p's join-game on a new connection while the grace timer
\* of p's dropped connection is pending and nothing else has touched the game
RejoinStep(p) ==
    /\ dropped[p].live
    /\ \E g \in DOMAIN activeGames :
          /\ <<g, p>> \in DOMAIN disconnectTimeouts
          /\ SlotSocket(activeGames, g, p) = 0
          /\ SlotSocket(activeGames', g, p) # 0

\* C6: reconnection is idempotent. When a player's connection drops and the
\* player rejoins before the grace timer fires, the game row and the tiles are
\* what they were before the drop, and the player still has a presence entry
\* if there was one before the drop.
C6_ReconnectIdempotent ==
    [][\A p \in LobbyUsers :
          RejoinStep(p) =>
              /\ Games' = dropped[p].Games
              /\ GameTiles' = dropped[p].GameTiles
              /\ dropped[p].bound => userSocketMap'[p] # 0]_vars

\* the step in which slot s takes a new play, draw or pass request
MoveBeginStep(s) ==
    /\ started' = started + 1
    /\ reqs'[s] # reqs[s]
    /\ reqs'[s].kind \in {"play", "draw", "pass"}

\* C11: a play, draw or pass request of a user who is not the current-turn
\* player is answered 403 and leaves the three tables (tiles with locations
\* and board positions, boneyard count, current turn, status, winner) as
\* they were.
C11_NotYourTurnNoOp ==
    [][\A s \in Slots :
          (MoveBeginStep(s) /\ reqs'[s].userId # Games[1].current_turn)
              => /\ reqs'[s].pc = "done"
                 /\ reqs'[s].code = 403
                 /\ <<Games, GameTiles, GameMoves>>' = <<Games, GameTiles, GameMoves>>]_vars

\* a request of each kind was turned away with 403
C11_Witness ==
    \E s \in Slots :
        /\ reqs[s].pc = "done"
        /\ reqs[s].code = 403
        /\ reqs[s].kind \in {"play", "draw", "pass"}
        /\ reqs[s].userId # Games[1].current_turn

\* the step in which the pass request of slot s is answered 200
PassSucceedsStep(s) ==
    /\ reqs[s].kind = "pass"
    /\ reqs[s].pc = "turn"
    /\ reqs'[s].code = 200

\* C12: a pass is accepted only when the boneyard is empty, and then the turn
\* goes to the other player; while the boneyard holds a tile the pass is
\* rejected and changes nothing.
C12_PassNeedsEmptyBoneyard ==
    [][\A s \in Slots :
          PassSucceedsStep(s) =>
              /\ TilesAt(GameTiles, 1, "boneyard") = {}
              /\ Games'[1].current_turn = Opponent(reqs[s].userId)]_vars

\* every request in flight read the game row after the game was completed
BegunAfterCompletion ==
    \A s \in Slots : Free(s) \/ reqs[s].game.status = "completed"

\* C13: completed is terminal. Once the game row says completed, no request
\* that arrives afterwards changes the game row (turn, status, winner,
\* boneyard count) or any tile.
C13_CompletedIsTerminal ==
    [][(Games[1].status = "completed" /\ BegunAfterCompletion)
          => (Games' = Games /\ GameTiles' = GameTiles)]_vars

\* the step in which the notification of request s is relayed to the other player
NotifyStep(s) ==
    /\ ~reqs[s].notified /\ reqs'[s].notified
    /\ \E e \in out' : e.ev \in RelayEvents \cup {"game-ended"}
                        /\ e.to \in DOMAIN sockets /\ sockets[e.to].userId # reqs[s].userId

\* C14: persist before notify. An opponent-played, opponent-drew,
\* opponent-passed or game-ended notification reaches the other player's
\* connection only when every update of the corresponding request went through.
C14_PersistBeforeNotify ==
    [][\A s \in FaultySlots : NotifyStep(s) => (reqs[s].wrote /\ ~reqs[s].failed)]_vars

\* C15: a persistence failure leaves the state as before. A play, draw or pass
\* request in which an update failed is answered with an error and has changed
\* no tile, no boneyard count and no current turn.
C15_FailureLeavesState ==
    \A s \in FaultySlots :
        (reqs[s].pc = "done" /\ reqs[s].kind \in {"play", "draw", "pass"} /\ reqs[s].failed)
            => (reqs[s].code # 200 /\ ~reqs[s].wrote)

\* the connection k, registered for user u, goes away while the registry
\* holds another connection for u
StaleDisconnectStep(k, u) ==
    /\ Connected(k) /\ sockets[k].userId = u
    /\ ~sockets'[k].connected
    /\ userSocketMap[u] # k

\* C16: the presence registry maps a user to the most recently registered
\* live connection. The disconnect of an older connection, after the user has
\* registered on a newer one, leaves the newer binding in place.
C16_StaleDisconnectNoOp ==
    [][\A k \in DOMAIN sockets, u \in LobbyUsers :
          StaleDisconnectStep(k, u) => userSocketMap'[u] = userSocketMap[u]]_vars

\* ------------------------------------------------ the timers do fire
\* setTimeout callbacks run once their delay is over, and a callback whose
\* awaited update has answered runs to its end.
FairLifecycle ==
    \A h \in SocketIds :
        /\ WF_vars(TimerFire(h))
        /\ WF_vars(\E ok \in BOOLEAN : TimerFinish(h, ok))

SpecLifecycleFair == InitLifecycle /\ [][NextLifecycle]_vars /\ FairLifecycle

\* the grace timer h is pending in a game both players of the row have joined
Armed(h) ==
    /\ h \in DOMAIN timers /\ timers[h].pc = "armed"
    /\ timers[h].gameId \in DOMAIN activeGames
    /\ {activeGames[timers[h].gameId].player1Id,
         activeGames[timers[h].gameId].player2Id} = LobbyUsers
\* the player of timer h has come back to the game
Rejoined(h) == h \in DOMAIN timers /\ timers[h].pc = "cleared"
\* the game of timer h is over and the opponent of its player has won
ForfeitedTo(h) ==
    /\ h \in DOMAIN timers
    /\ \E g \in DOMAIN Games :
          /\ Games[g].game_uuid = timers[h].gameId
          /\ Games[g].status = "completed"
          /\ Games[g].winner_id = Opponent(timers[h].disconnectedPlayerId)
    /\ timers[h].gameId \notin DOMAIN activeGames

\* C17: forfeiture eventually happens. Once the connection of a player bound
\* to a live game has dropped, either the player rejoins or the game becomes
\* completed with the other player as winner and leaves the live set.
C17_ForfeitEventually ==
    \A h \in SocketIds : Armed(h) ~> (Rejoined(h) \/ ForfeitedTo(h))

\* ------------------------------------------- dropping and coming back
\* A player who loses the connection twice comes back on a third one.
MaxRejoins == 3
RejoinSockets == 1..MaxRejoins

NextRejoin ==
    \/ ConnectUpTo(MaxRejoins)
    \/ \E k \in RejoinSockets, g \in GameIds, p \in LobbyUsers : JoinGame(k, g, p)
    \/ \E k \in RejoinSockets : Disconnect(k)
    \/ \E h \in RejoinSockets : TimerFire(h)
    \/ \E h \in RejoinSockets, ok \in BOOLEAN : TimerFinish(h, ok)

SpecRejoin == InitLifecycle /\ [][NextRejoin]_vars

\* the grace timer h of player p in game g has been set and has not fired
PendingFor(h, g, p) ==
    /\ h \in DOMAIN timers
    /\ timers[h].pc = "armed"
    /\ timers[h].gameId = g
    /\ timers[h].disconnectedPlayerId = p

\* C18: rejoin cancels exactly one timer. When player p rejoins game g on
\* connection k while the grace timer of (g, p) is pending, that timer is
\* cancelled, the stored handle of p in g becomes k, and no other timer and no
\* other entry of the timer table is touched; a cancelled timer stays cancelled.
C18_RejoinCancelsOneTimer ==
    [][/\ \A k \in RejoinSockets, g \in GameIds, p \in LobbyUsers :
            (JoinGame(k, g, p) /\ \E h \in DOMAIN timers : PendingFor(h, g, p))
                => /\ \A h \in DOMAIN timers :
                         IF PendingFor(h, g, p)
                         THEN timers'[h].pc = "cleared"
                         ELSE timers'[h] = timers[h]
                   /\ SlotSocket(activeGames', g, p) = k
                   /\ \A key \in DOMAIN disconnectTimeouts \ {<<g, p>>} :
                         /\ key \in DOMAIN disconnectTimeouts'
                         /\ disconnectTimeouts'[key] = disconnectTimeouts[key]
       /\ \A h \in DOMAIN timers : timers[h].pc = "cleared" => timers'[h].pc = "cleared"]_vars

\* connection k holds the seat of player p in live game g
Seat(k, g, p) ==
    /\ g \in DOMAIN activeGames
    /\ p # 0
    /\ \/ activeGames[g].player1SocketId = k /\ activeGames[g].player1Id = p
       \/ activeGames[g].player2SocketId = k /\ activeGames[g].player2Id = p

\* the leave-game handler l resumes after its update and runs to its end
LeaveFinishStep(l) ==
    /\ l \in DOMAIN leaves
    /\ leaves[l].pc = "update"
    /\ leaves'[l].pc = "returned"

\* C19: voluntary leave. A leave-game from the connection of player p in a
\* live game names the other player of the game as winner and cancels p's
\* pending grace timer at once; when the handler has run, the game row is
\* completed with that winner, opponent-disconnected has gone to the rest of
\* the room, user-available has been broadcast and the game has left the
\* live set.
C19_LeaveForfeits ==
    [][/\ \A k \in SocketIds, g \in GameIds, p \in LobbyUsers :
            (LeaveBegin(k, g) /\ Seat(k, g, p))
                => /\ leaves'[Len(leaves')].remainingPlayerId = Opponent(p)
                   /\ \A h \in DOMAIN timers : ~PendingFor(h, g, p)'
       /\ \A l \in 1..MaxLeaves :
            LeaveFinishStep(l)
                => /\ \E g \in DOMAIN Games' :
                         /\ Games'[g].game_uuid = leaves[l].gameId
                         /\ Games'[g].status = "completed"
                         /\ Games'[g].winner_id = leaves[l].remainingPlayerId
                   /\ out' = ToRoom("opponent-disconnected", leaves[l].gameId, {leaves[l].sock})
                                \cup {Event("user-available", All)}
                   /\ leaves[l].gameId \notin DOMAIN activeGames']_vars

\* the tile rows of game row g
TileRowsOf(g) == {t \in DOMAIN GameTiles : GameTiles[t].gameID = g}
\* an accept-challenge handler has inserted game row g and not yet its tiles
BeingCreated(g) ==
    \E a \in DOMAIN accepts : accepts[a].pc = "insertTiles" /\ accepts[a].gameID = g

\* C20: game creation is atomic. Every active game row whose creation is not
\* in progress has its 28 tile rows; an accept that fails after the game row
\* was inserted leaves no game row behind.
C20_CreationAtomic ==
    \A g \in DOMAIN Games :
        (Games[g].status = "active" /\ ~BeingCreated(g))
            => Cardinality(TileRowsOf(g)) = Len(DominoSet)

\* the accept-challenge handler a ends in this step with outcome pc
AcceptEndsStep(a, pc) ==
    /\ a \in DOMAIN accepts
    /\ accepts[a].pc \in {"insertGame", "insertTiles"}
    /\ accepts'[a].pc = pc

\* C21: after a successful accept the current connections of the challenger
\* and of the target get game-start for the new game, whose player1 is the
\* challenger, user-busy is broadcast and the challenge is no longer pending;
\* after a failed insert only the acceptor hears of it, by challenge-error.
C21_AcceptNotifiesBoth ==
    [][\A a \in 1..MaxAccepts :
          /\ AcceptEndsStep(a, "started") =>
                LET c == accepts[a].challenge
                IN /\ \A u \in {c.challengerId, c.targetId} :
                         userSocketMap[u] # 0 => Event("game-start", userSocketMap[u]) \in out'
                   /\ Event("user-busy", All) \in out'
                   /\ accepts[a].challengeId \notin DOMAIN activeChallenges'
                   /\ Games'[accepts[a].gameID].player1_id = c.challengerId
          /\ (AcceptEndsStep(a, "gameError") \/ AcceptEndsStep(a, "tilesError")) =>
                out' = {Event("challenge-error", accepts[a].sock)}]_vars

\* C22: decline of a pending challenge removes that challenge and no other and
\* sends challenge-declined to the challenger's current connection and to
\* nobody else; decline of an absent id changes nothing and emits nothing; an
\* id that is no longer pending never becomes pending again, and an accept of
\* it ends with challenge-error and without a game row.
C22_DeclineRemoves ==
    [][/\ \A k \in SocketIds, c \in ChallengeIds :
            DeclineChallenge(k, c) =>
                IF c \in DOMAIN activeChallenges
                THEN LET to == userSocketMap[activeChallenges[c].challengerId]
                     IN /\ activeChallenges' = MapDelete(activeChallenges, {c})
                        /\ out' = IF to # 0 THEN {Event("challenge-declined", to)} ELSE {}
                        /\ UNCHANGED <<dbVars, userSocketMap, accepts>>
                ELSE out' = {} /\ UNCHANGED <<dbVars, chalVars>>
       /\ \A c \in ChallengeIds :
            c \notin DOMAIN activeChallenges =>
                /\ c \notin DOMAIN activeChallenges'
                /\ \A k \in SocketIds, seed \in 0..MaxSeed :
                      AcceptBegin(k, c, seed) =>
                          /\ accepts'[Len(accepts')].pc = "notFound"
                          /\ out' = {Event("challenge-error", k)}
                          /\ UNCHANGED dbVars]_vars

\* a challenge has just been declined and its challenger, who is online, told
C22_Witness ==
    /\ issued # <<>>
    /\ activeChallenges = EmptyMap
    /\ \E u \in LobbyUsers :
          userSocketMap[u] # 0 /\ out = {Event("challenge-declined", userSocketMap[u])}

\* ------------------------------------------------- challenges grow old
\* Users come online and challenge each other while the clock runs; nobody
\* answers.  The interval timer keeps firing.
NextExpiry ==
    \/ Connect
    \/ \E k \in SocketIds, id \in LobbyUsers : RegisterUser(k, id)
    \/ \E k \in SocketIds, targetId \in LobbyUsers : SendChallenge(k, targetId)
    \/ Tick

SpecExpiry == InitChallenge /\ [][NextExpiry]_vars /\ WF_vars(Tick)

\* the last instant of the model's clock
Horizon == MaxTicks * TimeStep
\* the clock step of this transition runs the sweep
SweepStep == now' # now /\ now' % SweepInterval = 0

\* C23: expiry sweep. After a sweep no pending challenge is older than 120 s,
\* the challenges that are not older are as they were, and nothing is emitted;
\* a challenge nobody answers is eventually gone.
C23_SweepExpires ==
    /\ [][SweepStep =>
            /\ \A c \in DOMAIN activeChallenges' :
                  now' - activeChallenges'[c].timestamp <= EXPIRY
            /\ \A c \in DOMAIN activeChallenges :
                  now' - activeChallenges[c].timestamp <= EXPIRY
                      => /\ c \in DOMAIN activeChallenges'
                         /\ activeChallenges'[c] = activeChallenges[c]
            /\ out' = {}]_vars
    /\ \A c \in Users \X Users \X (1..(MaxChallenges + 1)) :
          (/\ c \in DOMAIN activeChallenges
           /\ activeChallenges[c].timestamp + EXPIRY + SweepInterval <= Horizon)
              ~> (c \notin DOMAIN activeChallenges)

\* a sweep has just removed a challenge that had grown old
C23_Witness ==
    /\ issued # <<>>
    /\ activeChallenges = EmptyMap
    /\ now % SweepInterval = 0
    /\ now > EXPIRY

\* the connection k of user u drops in this step
DropStep(k, u) ==
    /\ Connected(k) /\ sockets[k].userId = u
    /\ ~sockets'[k].connected

HandCheckStep(s) ==
    /\ reqs[s].kind = "play" /\ reqs[s].pc = "checkTile"
    /\ reqs'[s] # reqs[s]

\* C25: TileNotInHand. A play by the player to move that names a tile which
\* is not in that player's own hand is answered with 400 and changes no tile,
\* no board position, no turn and no status.
C25_TileNotInHand ==
    [][\A s \in Slots :
          (/\ HandCheckStep(s)
           /\ reqs[s].tileId \notin Hand(GameTiles, HandOf(reqs[s].userId)))
              => /\ reqs'[s].pc = "done"
                 /\ reqs'[s].code = 400
                 /\ UNCHANGED dbVars]_vars

\* the player to move has been refused a tile that lies elsewhere
C25_Witness ==
    \E s \in Slots :
        /\ reqs[s].kind = "play" /\ reqs[s].pc = "done" /\ reqs[s].code = 400
        /\ reqs[s].userId = Games[1].current_turn
        /\ GameTiles[reqs[s].tileId].location \in {"board", "boneyard", HandOf(Opponent(reqs[s].userId))}

\* the draw request in slot s takes the step that starts at pc
DrawStep(s, pc) ==
    /\ reqs[s].kind = "draw" /\ reqs[s].pc = pc
    /\ reqs'[s] # reqs[s]

\* C26: draw by the player to move. With no tile in the boneyard the request
\* is answered with 400 and changes nothing; otherwise the drawn tile goes
\* from the boneyard to the acting player's own hand and no other tile moves,
\* the boneyard count goes down by one and the turn passes to the opponent.
C26_DrawMovesOneTile ==
    [][\A s \in Slots :
          /\ (/\ MoveBeginStep(s) /\ reqs'[s].kind = "draw"
              /\ reqs'[s].userId = Games[1].current_turn
              /\ TilesAt(GameTiles, 1, "boneyard") = {})
                 => (reqs'[s].pc = "done" /\ reqs'[s].code = 400 /\ UNCHANGED dbVars)
          /\ DrawStep(s, "move")
                 => /\ GameTiles[reqs[s].drawn].location = "boneyard"
                    /\ GameTiles' = [GameTiles EXCEPT
                                       ![reqs[s].drawn].location = HandOf(reqs[s].userId)]
          /\ DrawStep(s, "count")
                 => /\ Games'[1].boneyard_count = Games[1].boneyard_count - 1
                    /\ Games'[1].boneyard_count
                           = Cardinality(TilesAt(GameTiles', 1, "boneyard"))
                    /\ Games'[1].current_turn = Opponent(reqs[s].userId)]_vars

\* C27: winner invariant. A game row has a winner exactly when its status is
\* not active, and a recorded winner is one of the two players of the row.
C27_WinnerIffEnded ==
    \A g \in DOMAIN Games :
        /\ (Games[g].winner_id # NoWinner) <=> (Games[g].status # "active")
        /\ Games[g].winner_id # NoWinner
              => Games[g].winner_id \in {Games[g].player1_id, Games[g].player2_id}

\* no tile to draw, and no tile in either hand fits an open end of the chain
Blocked ==
    /\ TilesAt(GameTiles, 1, "boneyard") = {}
    /\ Games[1].boneyard_count = 0
    /\ \A loc \in HandLocations :
          /\ Hand(GameTiles, loc) # {}
          /\ \A t \in Hand(GameTiles, loc) :
                ~canPlayTile(boardChain(GameTiles, 1), HandTile(GameTiles, t))

\* the pips a player holds
RECURSIVE PipSum(_)
PipSum(S) ==
    IF S = {} THEN 0
    ELSE LET t == CHOOSE x \in S : TRUE
         IN GameTiles[t].top_value + GameTiles[t].bottom_value + PipSum(S \ {t})

\* C28: every game is played to completion. A pass made when the boneyard is
\* empty and neither player holds a tile that fits an open end ends the game,
\* with a player of the lowest pip total as winner.
C28_BlockedGameEnds ==
    [][\A s \in Slots :
          (Blocked /\ PassSucceedsStep(s) /\ reqs'[s] # reqs[s])
              => /\ Games'[1].status = "completed"
                 /\ \A loc \in HandLocations :
                       PipSum(Hand(GameTiles, HandOf(Games'[1].winner_id)))
                           <= PipSum(Hand(GameTiles, loc))]_vars

\* the grace-timer callback h resumes after its update and runs to its end
TimerFinishStep(h) ==
    /\ h \in DOMAIN timers
    /\ timers[h].pc = "update"
    /\ timers'[h].pc = "returned"

\* the row of game g says completed
Completed(G, g) == \E n \in DOMAIN G : G[n].game_uuid = g /\ G[n].status = "completed"

\* C29: a game leaves the live set only when its completion has been
\* persisted. When leave-game or the grace-timer callback has run to its end
\* and the row is not completed, the game is still live and nobody has been
\* sent opponent-disconnected.
C29_RemovedOnlyWhenPersisted ==
    [][\A g \in DOMAIN activeGames :
          (/\ \/ \E l \in DOMAIN leaves : LeaveFinishStep(l) /\ leaves[l].gameId = g
              \/ \E h \in DOMAIN timers : TimerFinishStep(h) /\ timers[h].gameId = g
           /\ ~Completed(Games', g))
              => /\ g \in DOMAIN activeGames'
                 /\ \A e \in out' : e.ev # "opponent-disconnected"]_vars

\* --------------------------------------------------- two games at once
\* Users 1 and 2 have two games going: game 2 stands where game 1 stands.
\* The rows of a second game that mirror those of game 1.
SecondGame(db) ==
    [Games |-> db.Games \o <<[db.Games[1] EXCEPT !.game_uuid = 2]>>,
     GameTiles |-> db.GameTiles
                     \o [t \in DOMAIN db.GameTiles |-> [db.GameTiles[t] EXCEPT !.gameID = 2]],
     GameMoves |-> db.GameMoves
                     \o [n \in DOMAIN db.GameMoves |-> [db.GameMoves[n] EXCEPT !.gameID = 2]]]

\* User 1 has joined both games from connection 1; user 2 had joined game 2
\* from connection 2, which has dropped: its grace timer is pending.
TwoGamesSeated ==
    /\ sockets = <<[connected |-> TRUE, userId |-> 0, rooms |-> {1, 2}], Closed>>
    /\ activeGames = MapSet(MapSet(EmptyMap, 1,
                              [NoPlayers EXCEPT !.player1SocketId = 1, !.player1Id = 1]),
                            2, [player1SocketId |-> 1, player2SocketId |-> 0,
                                player1Id |-> 1, player2Id |-> 2])
    /\ timers = <<[pc |-> "armed", gameId |-> 2, disconnectedPlayerId |-> 2,
                   player1Id |-> 0, player2Id |-> 0, remainingPlayerId |-> 0]>>
    /\ disconnectTimeouts = MapSet(EmptyMap, <<2, 2>>, 1)
    /\ leaves = <<>>
    /\ forfeits = <<>>
    /\ out = {}

InitTwoGames ==
    /\ Games = SecondGame(Position(0, <<FALSE, ReplayShort>>)).Games
    /\ GameTiles = SecondGame(Position(0, <<FALSE, ReplayShort>>)).GameTiles
    /\ GameMoves = SecondGame(Position(0, <<FALSE, ReplayShort>>)).GameMoves
    /\ NoRequests
    /\ TwoGamesSeated
    /\ dropped = [NoDrops EXCEPT ![2] = [bound |-> FALSE, Games |-> Games,
                                         GameTiles |-> GameTiles, live |-> TRUE]]
    /\ userSocketMap = [u \in LobbyUsers |-> 0]
    /\ activeChallenges = EmptyMap
    /\ accepts = <<>>
    /\ issued = <<>>
    /\ now = 0

\* tile ids of the other game a request on game 1 may name
OtherGameChoices == UNION {Lowest(TilesAt(GameTiles, 2, loc), MaxPick) : loc \in HandLocations}

\* The routes touch the tables only and the socket handlers only the Games
\* row of their game: a behaviour exercises the routes or the handlers.  The
\* requests and the events of the clients are addressed to game 1; game 2
\* moves only through its timer and the drop of a connection seated in it.
NextTwoGames ==
    \/ \E s \in FaultySlots :
          \/ \E u \in LobbyUsers, t \in TileChoices \cup OtherGameChoices,
                side \in Sides, flip \in BOOLEAN :
                  TwoGamesSeated /\ PlayBegin(s, u, t, side, flip)
          \/ TwoGamesSeated /\ PlayCheckTile(s)
          \/ TwoGamesSeated /\ PlayReadBoard(s)
          \/ TwoGamesSeated /\ PlayShift(s)
          \/ TwoGamesSeated /\ PlayPlace(s)
          \/ TwoGamesSeated /\ PlayFinish(s)
          \/ \E u \in LobbyUsers, loc \in DrawLocations : TwoGamesSeated /\ DrawBegin(s, u, loc)
          \/ TwoGamesSeated /\ DrawPick(s)
          \/ TwoGamesSeated /\ DrawMove(s)
          \/ TwoGamesSeated /\ DrawFinish(s)
          \/ \E u \in LobbyUsers : TwoGamesSeated /\ PassBegin(s, u)
          \/ TwoGamesSeated /\ PassFinish(s)
          \/ \E u \in LobbyUsers, w \in LobbyUsers : TwoGamesSeated /\ EndRequest(s, u, w)
    \/ started = 0 /\ ConnectUpTo(MaxRejoins)
    \/ \E k \in RejoinSockets :
          started = 0 /\ JoinGame(k, 1, IF k = 1 THEN 1 ELSE 2)   \* user 2 comes back
    \/ \E k \in RejoinSockets : started = 0 /\ EndGame(k, 1)
    \/ \E k \in RejoinSockets : started = 0 /\ LeaveBegin(k, 1)
    \/ \E l \in 1..MaxLeaves, ok \in BOOLEAN : started = 0 /\ LeaveFinish(l, ok)
    \/ \E k \in RejoinSockets : started = 0 /\ Disconnect(k)
    \/ \E h \in RejoinSockets : started = 0 /\ TimerFire(h)
    \/ \E h \in RejoinSockets, ok \in BOOLEAN : started = 0 /\ TimerFinish(h, ok)

SpecTwoGames == InitTwoGames /\ [][NextTwoGames]_vars

\* the rows of game g are the same before and after the step
RowsFrame(g) ==
    /\ \A n \in DOMAIN Games :
          Games[n].game_uuid = g => (n \in DOMAIN Games' /\ Games'[n] = Games[n])
    /\ \A t \in DOMAIN GameTiles :
          GameTiles[t].gameID = g => (t \in DOMAIN GameTiles' /\ GameTiles'[t] = GameTiles[t])
    /\ Cardinality({t \in DOMAIN GameTiles' : GameTiles'[t].gameID = g})
          = Cardinality({t \in DOMAIN GameTiles : GameTiles[t].gameID = g})
    /\ SelectSeq(GameMoves', LAMBDA mv : mv.gameID = g)
          = SelectSeq(GameMoves, LAMBDA mv : mv.gameID = g)

\* the live entry and the timers of game g are the same before and after
LiveFrame(g) ==
    /\ (g \in DOMAIN activeGames) <=> (g \in DOMAIN activeGames')
    /\ g \in DOMAIN activeGames => activeGames'[g] = activeGames[g]
    /\ \A h \in DOMAIN timers : timers[h].gameId = g => timers'[h] = timers[h]
    /\ \A h \in DOMAIN timers' \ DOMAIN timers : timers'[h].gameId # g
    /\ \A p \in LobbyUsers :
          /\ (<<g, p>> \in DOMAIN disconnectTimeouts) <=> (<<g, p>> \in DOMAIN disconnectTimeouts')
          /\ <<g, p>> \in DOMAIN disconnectTimeouts
                => disconnectTimeouts'[<<g, p>>] = disconnectTimeouts[<<g, p>>]

\* connection k is the stored handle of a player of game g
Handle(k, g) ==
    /\ g \in DOMAIN activeGames
    /\ k \in {activeGames[g].player1SocketId, activeGames[g].player2SocketId}

\* C30: per-game isolation. A request or event addressed to game 1 leaves the
\* rows, the live entry and the timers of game 2 as they are; the expiry of
\* a timer of one game leaves the other game as it is; a connection drop
\* leaves every game alone in which the connection is not a player's handle.
C30_PerGameIsolation ==
    [][/\ (reqs' # reqs) => (RowsFrame(2) /\ LiveFrame(2))
       /\ \A k \in RejoinSockets :
             (\/ \E p \in LobbyUsers : JoinGame(k, 1, p)
              \/ EndGame(k, 1)
              \/ LeaveBegin(k, 1))
                 => (RowsFrame(2) /\ LiveFrame(2))
       /\ \A l \in DOMAIN leaves :
             LeaveFinishStep(l) => \A g \in GameIds \ {leaves[l].gameId} :
                                       RowsFrame(g) /\ LiveFrame(g)
       /\ \A h \in DOMAIN timers :
             (timers[h].pc \in {"armed", "update"} /\ timers'[h].pc = "returned")
                 => \A g \in GameIds \ {timers[h].gameId} : RowsFrame(g) /\ LiveFrame(g)
       /\ \A k \in RejoinSockets :
             (Connected(k) /\ ~Connected(k)')
                 => \A g \in GameIds : ~Handle(k, g) => (RowsFrame(g) /\ LiveFrame(g))]_vars

\* game 1 has been forfeited through its own timer while game 2, with the
\* same user seated, is still live, active and waiting on its own timer
C30_Witness ==
    /\ 1 \notin DOMAIN activeGames
    /\ Completed(Games, 1)
    /\ 2 \in DOMAIN activeGames
    /\ ~Completed(Games, 2)
    /\ \E h \in DOMAIN timers : timers[h].gameId = 1 /\ timers[h].pc = "returned"
    /\ \E h \in DOMAIN timers : timers[h].gameId = 2 /\ timers[h].pc = "armed"

\* C31: the chain is always well-formed.  In every reachable state with a
\* non-empty chain, for each pair of adjacent placed tiles the right-facing
\* pip of the left tile equals the left-facing pip of the right tile (the
\* open ends being the first tile's left pip and the last tile's right pip).
C31_ChainWellFormed ==
    LET chain == boardChain(GameTiles, 1)
    IN \A k \in 1..(Len(chain) - 1) : chain[k].bottom = chain[k + 1].top

\* ------------------------------------------ the shuffle, one step at a time
\* generateAndShuffleDominoes as accept-challenge calls it, with the value of
\* Math.random() an input of every iteration: up to MaxFree iterations take
\* any index of 0..i, the others the index of the stream numbered seed.
\* accepts[1] holds the locals of the call.
InitShuffle ==
    /\ Games = <<>>
    /\ GameTiles = <<>>
    /\ GameMoves = <<>>
    /\ NoRequests
    /\ sockets = <<>>
    /\ userSocketMap = [u \in LobbyUsers |-> 0]
    /\ activeChallenges = EmptyMap
    /\ \E seed \in 0..MaxSeed :
          accepts = <<[pc |-> "shuffle", seed |-> seed, free |-> MaxFree,
                       set |-> DominoSet, i |-> Len(DominoSet) - 1]>>
    /\ issued = <<>>
    /\ now = 0
    /\ activeGames = EmptyMap
    /\ disconnectTimeouts = EmptyMap
    /\ timers = <<>>
    /\ leaves = <<>>
    /\ dropped = [p \in LobbyUsers |-> NoDrop]
    /\ forfeits = <<>>
    /\ out = {}

\* one iteration of for (let i = set.length - 1; i > 0; i--)
ShuffleStep(j) ==
    LET r == accepts[1]
        streamed == j = RandomIndex(r.seed, r.i)
    IN /\ r.pc = "shuffle"
       /\ r.i > 0
       /\ j \in 0..r.i
       /\ streamed \/ r.free > 0
       /\ accepts' = <<[r EXCEPT !.set = Swap(r.set, r.i, j), !.i = r.i - 1,
                                 !.free = IF streamed THEN @ ELSE @ - 1]>>
       /\ UNCHANGED <<dbVars, httpVars, gameVars, sockets, userSocketMap, activeChallenges,
                      issued, now, out>>

\* return set; then the two splices of accept-challenge
ShuffleReturn ==
    LET r == accepts[1]
    IN /\ r.pc = "shuffle"
       /\ r.i = 0
       /\ accepts' = <<[pc |-> "dealt", returned |-> r.set,
                        player1Hand |-> player1HandOf(r.set),
                        player2Hand |-> player2HandOf(r.set),
                        boneyard |-> boneyardOf(r.set)]>>
       /\ UNCHANGED <<dbVars, httpVars, gameVars, sockets, userSocketMap, activeChallenges,
                      issued, now, out>>

NextShuffle ==
    \/ \E j \in 0..(Len(DominoSet) - 1) : ShuffleStep(j)
    \/ ShuffleReturn

SpecShuffle == InitShuffle /\ [][NextShuffle]_vars

\* the unordered pip pairs of a standard set
PipPairs == {<<i, j>> \in (0..MaxPip) \X (0..MaxPip) : i <= j}

\* how often the pair p occurs in the sequence, in either orientation
Occurrences(seq, p) ==
    Cardinality({k \in DOMAIN seq : seq[k] \in {p, <<p[2], p[1]>>}})

Range(seq) == {seq[k] : k \in DOMAIN seq}

\* C32: for every outcome of the random choices generateAndShuffleDominoes
\* returns (and holds after every iteration of its loop) a sequence of 28
\* tiles with each unordered pip pair {i, j}, 0 <= i <= j <= 6, exactly
\* once; the two hands and the boneyard spliced from it are pairwise
\* disjoint, of 7, 7 and 14 tiles, and together the whole set.
C32_ShuffleIsPermutation ==
    LET r == accepts[1]
    IN /\ r.pc = "shuffle" =>
             /\ Len(r.set) = Cardinality(PipPairs)
             /\ \A p \in PipPairs : Occurrences(r.set, p) = 1
       /\ r.pc = "dealt" =>
             /\ Len(r.returned) = Cardinality(PipPairs)
             /\ \A p \in PipPairs : Occurrences(r.returned, p) = 1
             /\ Len(r.player1Hand) = HandSize
             /\ Len(r.player2Hand) = HandSize
             /\ Len(r.boneyard) = Cardinality(PipPairs) - 2 * HandSize
             /\ Range(r.player1Hand) \cap Range(r.player2Hand) = {}
             /\ Range(r.player1Hand) \cap Range(r.boneyard) = {}
             /\ Range(r.player2Hand) \cap Range(r.boneyard) = {}
             /\ Range(r.player1Hand) \cup Range(r.player2Hand) \cup Range(r.boneyard)
                   = PipPairs
             /\ \A p \in PipPairs :
                   Occurrences(r.player1Hand, p) + Occurrences(r.player2Hand, p)
                      + Occurrences(r.boneyard, p) = 1

\* a shuffle that used a free random choice and moved a double out of its
\* place has returned and been dealt
C32_Witness ==
    /\ accepts[1].pc = "dealt"
    /\ accepts[1].returned # DominoSet
    /\ accepts[1].returned # generateAndShuffleDominoes(0)
    /\ accepts[1].returned # generateAndShuffleDominoes(1)
    /\ accepts[1].returned[1] # <<0, 0>>

\* connection k drops
ConnectionDrops(k) == Connected(k) /\ ~Connected(k)'

\* the step takes game g out of the live set, writes its row or tells its
\* room that the opponent is gone
EndsGame(g) ==
    \/ g \in DOMAIN activeGames /\ g \notin DOMAIN activeGames'
    \/ \E n \in DOMAIN Games : Games[n].game_uuid = g /\ Games'[n] # Games[n]
    \/ \E e \in out' : e.ev = "opponent-disconnected"

\* C33: grace period.  The drop of a player's connection does not itself end
\* a live game: the step keeps every game in the live set, writes no row and
\* emits no opponent-disconnected, and it leaves a pending timer under the
\* key of (game, player) for each game the connection was a handle of.  As long as
\* that timer is pending, a step that ends the game is a step of another
\* cause: end-game, the end of a leave-game, or the callback of another
\* timer that has expired.
C33_GracePeriod ==
    [][/\ \A k \in SocketIds :
             ConnectionDrops(k) =>
                /\ DOMAIN activeGames' = DOMAIN activeGames
                /\ Games' = Games
                /\ \A e \in out' : e.ev # "opponent-disconnected"
                /\ \A g \in DOMAIN activeGames :
                      (\E q \in LobbyUsers : Seat(k, g, q)) =>
                         \E p \in LobbyUsers :
                            /\ Seat(k, g, p)
                            /\ <<g, p>> \in DOMAIN disconnectTimeouts'
                            /\ LET h == disconnectTimeouts'[<<g, p>>]
                               IN /\ h \in DOMAIN timers' \ DOMAIN timers
                                  /\ timers'[h].pc = "armed"
                                  /\ timers'[h].gameId = g
                                  /\ timers'[h].disconnectedPlayerId = p
       /\ \A h \in DOMAIN timers :
             (timers[h].pc = "armed" /\ timers'[h].pc = "armed" /\ EndsGame(timers[h].gameId))
                => \/ \E k \in SocketIds : EndGame(k, timers[h].gameId)
                   \/ \E l \in DOMAIN leaves : LeaveFinishStep(l)
                   \/ \E e \in DOMAIN timers \ {h} : TimerFinishStep(e)
      ]_vars

\* a player has dropped out of a game with both seats taken: the timer is
\* pending, the game is live and its row active without a winner
C33_Witness ==
    \E h \in DOMAIN timers :
       /\ Armed(h)
       /\ ~Completed(Games, timers[h].gameId)
       /\ \A n \in DOMAIN Games : Games[n].winner_id = NoWinner
       /\ \E k \in DOMAIN sockets : ~Connected(k)
       /\ \E k \in DOMAIN sockets, p \in LobbyUsers \ {timers[h].disconnectedPlayerId} :
             Connected(k) /\ Seat(k, timers[h].gameId, p)
       /\ out = {}

\* ------------------------------------- challenges, the clock and the accept
\* send, accept and the clock with its sweep on one server
NextExpiryAccept ==
    \/ Connect
    \/ \E k \in SocketIds, id \in LobbyUsers : RegisterUser(k, id)
    \/ \E k \in SocketIds, targetId \in LobbyUsers : SendChallenge(k, targetId)
    \/ \E k \in SocketIds, c \in ChallengeIds, seed \in 0..MaxSeed : AcceptBegin(k, c, seed)
    \/ \E a \in 1..MaxAccepts, ok \in BOOLEAN : AcceptInsertGame(a, ok)
    \/ \E a \in 1..MaxAccepts, ok \in BOOLEAN : AcceptInsertTiles(a, ok)
    \/ Tick

SpecExpiryAccept == InitChallenge /\ [][NextExpiryAccept]_vars

\* an accept-challenge event arrives and its handler runs up to its first
\* await or to its return
AcceptArrives == Len(accepts') = Len(accepts) + 1

\* C34: an expired challenge cannot start a game.  An accept of a challenge
\* that is older than EXPIRY (120 seconds) when the accept arrives is answered
\* with challenge-error and the handler returns without creating a game,
\* whether or not a sweep has run since the challenge expired.
C34_ExpiredNotAccepted ==
    [][AcceptArrives =>
          LET r == accepts'[Len(accepts')]
              c == r.challengeId
          IN (c \in DOMAIN activeChallenges
                 /\ now - activeChallenges[c].timestamp > EXPIRY)
                => /\ r.pc = "notFound"
                   /\ \E k \in SocketIds : out' = {Event("challenge-error", k)}
                   /\ Games' = Games
      ]_vars

\* ------------------------------------------------- a third identity joins
\* join-game takes the playerId from the event: any user id can be named
NextThird ==
    \/ ConnectUpTo(MaxRejoins)
    \/ \E k \in RejoinSockets, g \in GameIds, p \in Users : JoinGame(k, g, p)
    \/ \E k \in RejoinSockets : Disconnect(k)
    \/ \E h \in RejoinSockets : TimerFire(h)
    \/ \E h \in RejoinSockets, ok \in BOOLEAN : TimerFinish(h, ok)

SpecThird == InitLifecycle /\ [][NextThird]_vars

\* both player identities of the live entry of game g are set
BothSet(A, g) == g \in DOMAIN A /\ A[g].player1Id # 0 /\ A[g].player2Id # 0

\* C35: the two player identities of a live game are fixed.  Once the live
\* entry of a game has player1Id and player2Id set, a join-game changes
\* neither of them, and a join-game that carries a third identity does not
\* take a player slot, also while one of the players is disconnected and
\* inside the grace period.
C35_IdentitiesFixed ==
    [][\A g \in GameIds :
          (BothSet(activeGames, g) /\ g \in DOMAIN activeGames') =>
              /\ activeGames'[g].player1Id = activeGames[g].player1Id
              /\ activeGames'[g].player2Id = activeGames[g].player2Id
              /\ \A k \in RejoinSockets, p \in Users :
                    (JoinGame(k, g, p)
                       /\ p \notin {activeGames[g].player1Id, activeGames[g].player2Id})
                       => k \notin {activeGames'[g].player1SocketId,
                                    activeGames'[g].player2SocketId}
                             \ {activeGames[g].player1SocketId,
                                activeGames[g].player2SocketId}
      ]_vars

\* the events that tell clients a game is over or its players are free
EndingEvents == {"opponent-disconnected", "game-ended", "user-available"}

\* C36: a leave-game or end-game for a live game g from a connection that
\* is not the stored handle of either player of g leaves g unchanged: the
\* game stays in the live set, its row is not written (the leave-game
\* handler returns without starting its update) and none of
\* opponent-disconnected, game-ended and user-available is emitted.
C36_OutsiderCannotEnd ==
    [][\A k \in SocketIds, g \in GameIds :
          (g \in DOMAIN activeGames /\ ~Handle(k, g)) =>
              /\ EndGame(k, g) =>
                    /\ g \in DOMAIN activeGames'
                    /\ activeGames'[g] = activeGames[g]
                    /\ Games' = Games
                    /\ \A e \in out' : e.ev \notin EndingEvents
              /\ LeaveBegin(k, g) =>
                    /\ leaves'[Len(leaves')].pc = "returned"
                    /\ g \in DOMAIN activeGames'
                    /\ Games' = Games
                    /\ \A e \in out' : e.ev \notin EndingEvents
      ]_vars

\* ------------------------------------------------- two pending challenges
\* both lobby users are connected and registered, user 1 has challenged
\* user 2, and a second challenge between the two is pending as well (from
\* user 1 again or from user 2): send-challenge stores every challenge
ChallengeOf(challengerId, targetId, n) ==
    [challengeId |-> <<challengerId, targetId, n>>, challengerId |-> challengerId,
     targetId |-> targetId, timestamp |-> 0]

InitTwoChallenges ==
    /\ Games = <<>>
    /\ GameTiles = <<>>
    /\ GameMoves = <<>>
    /\ NoRequests
    /\ sockets = [k \in SocketIds |-> [connected |-> TRUE, userId |-> k, rooms |-> {}]]
    /\ userSocketMap = [u \in LobbyUsers |-> u]
    /\ \E second \in {<<1, 2>>, <<2, 1>>} :
          /\ issued = <<<<1, 2, 1>>, <<second[1], second[2], 2>>>>
          /\ activeChallenges =
                MapSet(MapSet(EmptyMap, <<1, 2, 1>>, ChallengeOf(1, 2, 1)),
                       <<second[1], second[2], 2>>, ChallengeOf(second[1], second[2], 2))
    /\ accepts = <<>>
    /\ now = 0
    /\ activeGames = EmptyMap
    /\ disconnectTimeouts = EmptyMap
    /\ timers = <<>>
    /\ leaves = <<>>
    /\ dropped = NoDrops
    /\ forfeits = <<>>
    /\ out = {}

NextTwoChallenges ==
    \/ \E k \in SocketIds, c \in ChallengeIds, seed \in 0..MaxSeed : AcceptBegin(k, c, seed)
    \/ \E a \in 1..MaxAccepts, ok \in BOOLEAN : AcceptInsertGame(a, ok)
    \/ \E a \in 1..MaxAccepts, ok \in BOOLEAN : AcceptInsertTiles(a, ok)
    \/ \E k \in SocketIds, c \in ChallengeIds : DeclineChallenge(k, c)
    \/ \E k \in SocketIds : Disconnect(k)

SpecTwoChallenges == InitTwoChallenges /\ [][NextTwoChallenges]_vars

\* the active games user u is a player of
ActiveGamesOf(G, u) ==
    {n \in DOMAIN G : G[n].status = "active" /\ u \in {G[n].player1_id, G[n].player2_id}}

\* C37: a user is a player in at most one active game at any time.  An
\* accept of a challenge whose challenger or target is already a player of
\* an active game does not go on to create a game, and no state has a user
\* in two active games.
C37_OneActiveGamePerUser ==
    /\ [][AcceptArrives =>
            LET r == accepts'[Len(accepts')]
            IN (/\ r.challengeId \in DOMAIN activeChallenges
                /\ \E u \in {activeChallenges[r.challengeId].challengerId,
                             activeChallenges[r.challengeId].targetId} :
                      ActiveGamesOf(Games, u) # {})
                  => r.pc # "insertGame"]_vars
    /\ [](\A u \in Users : Cardinality(ActiveGamesOf(Games, u)) <= 1)

\* connection k is the one registered to the target of the pending challenge c
TargetOf(k, c) ==
    /\ c \in DOMAIN activeChallenges
    /\ userSocketMap[activeChallenges[c].targetId] = k

\* C38: only the target of a challenge can resolve it.  An accept-challenge
\* or decline-challenge for a pending challenge c that comes from a
\* connection not registered to c's target leaves c pending; the accept is
\* not carried on to the creation of a game and the decline notifies nobody.
C38_OnlyTargetResolves ==
    [][\A k \in SocketIds, c \in ChallengeIds :
          (c \in DOMAIN activeChallenges /\ ~TargetOf(k, c)) =>
              /\ DeclineChallenge(k, c) =>
                    /\ activeChallenges' = activeChallenges
                    /\ out' = {}
              /\ (\E seed \in 0..MaxSeed : AcceptBegin(k, c, seed)) =>
                    /\ activeChallenges' = activeChallenges
                    /\ accepts'[Len(accepts')].pc # "insertGame"
      ]_vars

\* the timers of game g whose callback can still run or is running
Unfinished(g) == {h \in DOMAIN timers : timers[h].gameId = g /\ timers[h].pc \in {"armed", "update"}}

\* no entry of the timer table belongs to a game that has left the live set
\* and whose timers have all fired or been cancelled
NoStaleKeys ==
    \A key \in DOMAIN disconnectTimeouts :
        (key[1] \notin DOMAIN activeGames) => Unfinished(key[1]) # {}

\* C39: timer table consistency.  In every reachable state each entry of
\* disconnectTimeouts is the handle of a pending grace timer (not fired, not
\* cancelled) of its own (game, player) and of a game in the live set, at
\* most one timer is pending per (game, player), and a game that has left
\* the live set has no entry left once its timers have fired.
C39_TimerTableConsistent ==
    /\ \A key \in DOMAIN disconnectTimeouts :
          /\ PendingFor(disconnectTimeouts[key], key[1], key[2])
          /\ key[1] \in DOMAIN activeGames
    /\ \A g \in GameIds, p \in LobbyUsers :
          Cardinality({h \in DOMAIN timers : PendingFor(h, g, p)}) <= 1
    /\ NoStaleKeys

\* no request is between its first read and its response
Quiescent == \A s \in Slots : Free(s)

\* C40: the stored boneyard count equals the number of tiles whose location
\* is the boneyard.  Whenever no request is in progress (at creation and
\* after any sequence of draw, play and pass requests, concurrent draws and
\* draws with any client-supplied location included) boneyard_count of the
\* game row is the number of boneyard rows of the game, so that the count
\* check of draw answers "empty" exactly when no boneyard tile exists.
C40_BoneyardCountExact ==
    Quiescent =>
        \A n \in DOMAIN Games :
            Games[n].boneyard_count
               = Cardinality(TilesAt(GameTiles, Games[n].game_uuid, "boneyard"))

=============================================================================
